---- MODULE Spec2Model ----
(***************************************************************************)
(* Model of the server-side session history engine of Drawpile             *)
(* (src/libserver/sessionhistory.cpp): the append-only log with its size   *)
(* accounting, the atomic reset and the streamed-reset state machine.      *)
(* Message lengths are in abstract byte units.                             *)
(***************************************************************************)
EXTENDS Integers, Sequences, FiniteSets, TLC

\* ------------------------------------------------------------------ bounds
\* lastIndex never grows past MaxIndex in the model
MaxIndex == 5
\* the clock advances at most MaxTicks milliseconds
MaxTicks == 2
\* most messages the pending log accepts from the stream in the model
MaxStreamed == 1
\* largest resetStreamSize in the model
MaxStreamBytes == 6
\* thumbnail generations started
MaxStarts == 3

\* clock reading (milliseconds since the epoch) at construction
StartTime == 3000
MSecsPerSec == 1000

\* ---------------------------------------------------------------- messages
Msg(kind, len, ctx) == [kind |-> kind, len |-> len, ctx |-> ctx]

length(m) == m.len
isControl(m) == m.kind = "control"
isServerMeta(m) == m.kind \in {"meta", "chat"}
isChat(m) == m.kind = "chat"

\* context ids of clients; 0 is the server
Ctx == {1, 2}
\* the clients that start streamed resets
Starters == {1}

\* messages clients append to the live log
LiveMsgs == {Msg("cmd", 6, 2)}

\* inner messages a reset stream may carry
InnerMsgs == {Msg("cmd", 6, 2), Msg("chat", 5, 1), Msg("control", 5, 1),
              Msg("meta", 5, 1)}

\* histories handed to reset() and loaded by historyLoaded()
Histories == {<<>>, <<Msg("cmd", 5, 1)>>, <<Msg("cmd", 5, 1), Msg("cmd", 6, 2)>>}

\* what one ResetStream message carries, decoded; <<>> is an empty payload
Payloads == {<<>>} \cup {<<m>> : m \in InnerMsgs}
            \cup {<<Msg("chat", 5, 1), Msg("cmd", 6, 2)>>}

\* message counts a client announces to prepareStreamedReset
ExpectedCounts == 0..2

\* server side state messages seeding the pending log
SeedLists == {<<>>, <<Msg("meta", 5, 0)>>}

\* correlators of a streamed reset, by their encoded length
Correlators == {1}

\* the answers of the openResetStream hook
OpenResults == {"Ok", "WriteError"}

makeSoftResetMessage == Msg("meta", 1, 0)
makeStreamedResetStart(contextId, correlator) ==
    Msg("control", 1 + correlator, contextId)
makeCaughtUp(key) == Msg("control", 1, 0)

RECURSIVE SumLen(_)
SumLen(s) == IF s = <<>> THEN 0 ELSE length(Head(s)) + SumLen(Tail(s))


\* ------------------------------------------------------ server command codec
\* A JSON text is a sequence of tokens: punctuation, strings, numbers and
\* the literals true, false and null.
Token(t, v) == [t |-> t, v |-> v]
Punct(v) == Token("punct", v)
String(v) == Token("string", v)

\* a QJsonValue: its type and what it holds; an array holds scalar tokens in
\* order, an object maps keys to scalar tokens
QJsonValue(type, val) == [type |-> type, val |-> val]
Undefined == QJsonValue("undefined", <<>>)

\* QJsonObject keeps its keys sorted; these are the keys in use, in order
Keys == <<"args", "ban", "cmd", "kwargs", "reason">>

isEmpty(container) == DOMAIN container = {}

RECURSIVE joinItems(_)
joinItems(items) ==
    IF Len(items) <= 1 THEN items
    ELSE <<Head(items), Punct(",")>> \o joinItems(Tail(items))

RECURSIVE writeValue(_)
RECURSIVE writeMembers(_, _, _)
\* the members of object, keys being those still to write
writeMembers(object, keys, first) ==
    IF keys = <<>> THEN <<>>
    ELSE IF Head(keys) \notin DOMAIN object
    THEN writeMembers(object, Tail(keys), first)
    ELSE (IF first THEN <<>> ELSE <<Punct(",")>>)
         \o <<String(Head(keys)), Punct(":")>>
         \o writeValue(object[Head(keys)])
         \o writeMembers(object, Tail(keys), FALSE)

writeValue(value) ==
    IF value.type = "array"
    THEN <<Punct("[")>> \o joinItems(value.val) \o <<Punct("]")>>
    ELSE IF value.type = "object"
    THEN <<Punct("{")>>
         \o writeMembers([k \in DOMAIN value.val |->
                             QJsonValue("scalar", value.val[k])], Keys, TRUE)
         \o <<Punct("}")>>
    ELSE <<value.val>>

\* QJsonDocument::toJson of a document that is an object
toJson(data) ==
    <<Punct("{")>> \o writeMembers(data, Keys, TRUE) \o <<Punct("}")>>

\* the parser: each step returns what it read, the tokens left, and whether
\* the text was well-formed so far
Parsed(val, rest, ok) == [val |-> val, rest |-> rest, ok |-> ok]
isScalar(token) == token.t # "punct"

RECURSIVE parseItems(_, _, _)
\* the items of an array after its opening bracket
parseItems(tokens, items, wantItem) ==
    IF tokens = <<>> THEN Parsed(items, <<>>, FALSE)
    ELSE IF Head(tokens) = Punct("]")
    THEN Parsed(items, Tail(tokens), ~wantItem \/ items = <<>>)
    ELSE IF Head(tokens) = Punct(",")
    THEN IF wantItem THEN Parsed(items, tokens, FALSE)
         ELSE parseItems(Tail(tokens), items, TRUE)
    ELSE IF isScalar(Head(tokens)) /\ (wantItem \/ items = <<>>)
    THEN parseItems(Tail(tokens), Append(items, Head(tokens)), FALSE)
    ELSE Parsed(items, tokens, FALSE)

RECURSIVE parseMembers(_, _, _, _)
\* the members of an object after its opening brace; nested says whether
\* the object is itself a member's value
parseMembers(tokens, members, wantMember, nested) ==
    IF tokens = <<>> THEN Parsed(members, <<>>, FALSE)
    ELSE IF Head(tokens) = Punct("}")
    THEN Parsed(members, Tail(tokens), ~wantMember \/ isEmpty(members))
    ELSE IF Head(tokens) = Punct(",")
    THEN IF wantMember THEN Parsed(members, tokens, FALSE)
         ELSE parseMembers(Tail(tokens), members, TRUE, nested)
    ELSE IF /\ Len(tokens) >= 3
            /\ tokens[1].t = "string"
            /\ tokens[2] = Punct(":")
            /\ wantMember \/ isEmpty(members)
    THEN LET key == tokens[1].v
             after == SubSeq(tokens, 4, Len(tokens))
             put(value) == [k \in DOMAIN members \cup {key} |->
                               IF k = key THEN value ELSE members[k]]
         IN IF isScalar(tokens[3])
            THEN parseMembers(after,
                              put(IF nested THEN tokens[3]
                                  ELSE QJsonValue("scalar", tokens[3])),
                              FALSE, nested)
            ELSE IF nested THEN Parsed(members, tokens, FALSE)
            ELSE IF tokens[3] = Punct("[")
            THEN LET array == parseItems(after, <<>>, FALSE)
                 IN IF array.ok
                    THEN parseMembers(array.rest,
                                      put(QJsonValue("array", array.val)),
                                      FALSE, nested)
                    ELSE Parsed(members, array.rest, FALSE)
            ELSE IF tokens[3] = Punct("{")
            THEN LET object == parseMembers(after, <<>>, FALSE, TRUE)
                 IN IF object.ok
                    THEN parseMembers(object.rest,
                                      put(QJsonValue("object", object.val)),
                                      FALSE, nested)
                    ELSE Parsed(members, object.rest, FALSE)
            ELSE Parsed(members, tokens, FALSE)
    ELSE Parsed(members, tokens, FALSE)

\* QJsonDocument::fromJson: the document and err.error == NoError
fromJsonBytes(bytes) ==
    IF bytes # <<>> /\ Head(bytes) = Punct("{")
    THEN LET read == parseMembers(Tail(bytes), <<>>, FALSE, FALSE)
         IN [object |-> read.val, NoError |-> read.ok /\ read.rest = <<>>]
    ELSE [object |-> <<>>, NoError |-> FALSE]

\* QJsonObject::operator[] and the conversions of QJsonValue
member(object, key) == IF key \in DOMAIN object THEN object[key] ELSE Undefined
toString(value) ==
    IF value.type = "scalar" /\ value.val.t = "string" THEN value.val.v ELSE ""
toArray(value) == IF value.type = "array" THEN value.val ELSE <<>>
toObject(value) == IF value.type = "object" THEN value.val ELSE <<>>

\* a message as the codec sees it: null, or of a type, with the JSON text of
\* a server command as its payload
DP_MSG_SERVER_COMMAND == "ServerCommand"
NullMessage == [type |-> "null", contextId |-> 0, payload |-> <<>>]
isNull(msg) == msg.type = "null"
makeServerCommandMessage(contextId, doc) ==
    [type |-> DP_MSG_SERVER_COMMAND, contextId |-> contextId,
     payload |-> toJson(doc)]

ServerCommand(cmd, args, kwargs) == [cmd |-> cmd, args |-> args, kwargs |-> kwargs]
NoCommand == ServerCommand("", <<>>, <<>>)

\* the members toMessage gives the document
commandData(x) ==
    [k \in {"cmd"} \cup (IF isEmpty(x.args) THEN {} ELSE {"args"})
                   \cup (IF isEmpty(x.kwargs) THEN {} ELSE {"kwargs"}) |->
        IF k = "cmd" THEN QJsonValue("scalar", String(x.cmd))
        ELSE IF k = "args" THEN QJsonValue("array", x.args)
        ELSE QJsonValue("object", x.kwargs)]

toMessage(x) == makeServerCommandMessage(0, commandData(x))

make(cmd, args, kwargs) == toMessage(ServerCommand(cmd, args, kwargs))

\* variant: the kwargs are not read back
fromJson_NoKwargs(doc) ==
    LET data == doc.object
    IN ServerCommand(toString(member(data, "cmd")),
                     toArray(member(data, "args")), <<>>)

fromJson(doc) ==
    LET data == doc.object
    IN ServerCommand(toString(member(data, "cmd")), toArray(member(data, "args")),
                     toObject(member(data, "kwargs")))

fromMessage(msg) ==
    IF isNull(msg) \/ msg.type # DP_MSG_SERVER_COMMAND
    THEN NoCommand
    ELSE LET doc == fromJsonBytes(msg.payload)
         IN IF ~doc.NoError THEN NoCommand ELSE fromJson(doc)
\* ------------------------------------------------------------------- state
VARIABLES
    baseSizeLimit,           \* m_baseSizeLimit
    overrideLimit,           \* what the overrideSizeLimit() hook returns
    firstIndex,              \* m_firstIndex
    lastIndex,               \* m_lastIndex
    sizeInBytes,             \* m_sizeInBytes
    lastResetTime,           \* m_lastResetTime
    autoResetBaseSize,       \* m_autoResetBaseSize
    resetStreamState,        \* m_resetStreamState
    resetStreamCtxId,        \* m_resetStreamCtxId
    resetStreamSize,         \* m_resetStreamSize
    resetStreamStartIndex,   \* m_resetStreamStartIndex
    resetStreamMessageCount, \* m_resetStreamMessageCount
    resetStreamConsumer,     \* m_resetStreamConsumer
    resetStreamAddError,     \* m_resetStreamAddError
    log,                     \* backend: the retained messages
    pending,                 \* backend: the pending log of the streamed reset
    now,                     \* the wall clock, in milliseconds
    invites,                 \* m_invites: secret -> Invite
    thumbnailCtxId,          \* m_thumbnailCtxId
    thumbnailCorrelator,     \* m_thumbnailCorrelator, as its characters
    correlatorIndex,         \* the static counter of startThumbnailGeneration
    thumbnail,               \* backend: the bytes of the stored thumbnail
    codec                    \* a ServerCommand, its message and what is read back

vars == <<baseSizeLimit, overrideLimit, firstIndex, lastIndex, sizeInBytes,
          lastResetTime, autoResetBaseSize, resetStreamState, resetStreamCtxId,
          resetStreamSize, resetStreamStartIndex, resetStreamMessageCount,
          resetStreamConsumer, resetStreamAddError, log, pending, now,
          invites, thumbnailCtxId, thumbnailCorrelator, correlatorIndex,
          thumbnail, codec>>

\* configured <<baseSizeLimit, overrideSizeLimit()>>; 0 is no limit, no override
SizeLimits == {<<0, 0>>, <<10, 0>>, <<10, 5>>}

\* m_resetStreamConsumer is either null or a live consumer
NoConsumer == FALSE
LiveConsumer == TRUE
\* the backend holds no pending log
NoPending == [open |-> FALSE, msgs |-> <<>>]
\* an empty QHash
EmptyHash == [k \in {} |-> k]

Init ==
    /\ \E c \in SizeLimits : baseSizeLimit = c[1] /\ overrideLimit = c[2]
    /\ firstIndex = 0
    /\ lastIndex = -1
    /\ sizeInBytes = 0
    /\ now = StartTime
    /\ lastResetTime = StartTime \div MSecsPerSec
    /\ autoResetBaseSize = 0
    /\ resetStreamState = "None"
    /\ resetStreamCtxId = 0
    /\ resetStreamSize = 0
    /\ resetStreamStartIndex = 0
    /\ resetStreamMessageCount = 0
    /\ resetStreamConsumer = NoConsumer
    /\ resetStreamAddError = "Ok"
    /\ log = <<>>
    /\ pending = NoPending
    /\ invites = EmptyHash
    /\ thumbnailCtxId = 0
    /\ thumbnailCorrelator = <<>>
    /\ correlatorIndex = 0
    /\ thumbnail = <<>>
    /\ codec = [command |-> NoCommand, message |-> NullMessage,
                parsed |-> NoCommand]

\* ------------------------------------------------------------------- calls
\* A call works on the session as a value: the fields of the object and of
\* its backend, with the call's return value and out parameter, whether it emitted
\* newMessagesAvailable, and the backend hooks it invoked, in order.
Self ==
    [baseSizeLimit |-> baseSizeLimit, overrideLimit |-> overrideLimit,
     firstIndex |-> firstIndex, lastIndex |-> lastIndex,
     sizeInBytes |-> sizeInBytes, lastResetTime |-> lastResetTime,
     autoResetBaseSize |-> autoResetBaseSize,
     resetStreamState |-> resetStreamState,
     resetStreamCtxId |-> resetStreamCtxId,
     resetStreamSize |-> resetStreamSize,
     resetStreamStartIndex |-> resetStreamStartIndex,
     resetStreamMessageCount |-> resetStreamMessageCount,
     resetStreamConsumer |-> resetStreamConsumer,
     resetStreamAddError |-> resetStreamAddError,
     log |-> log, pending |-> pending, now |-> now, invites |-> invites,
     thumbnailCtxId |-> thumbnailCtxId,
     thumbnailCorrelator |-> thumbnailCorrelator,
     correlatorIndex |-> correlatorIndex, thumbnail |-> thumbnail,
     ret |-> "none", out |-> "none", emitted |-> FALSE, hooks |-> <<>>]

\* the session after the call has returned
Becomes(c) ==
    /\ baseSizeLimit' = c.baseSizeLimit
    /\ overrideLimit' = c.overrideLimit
    /\ firstIndex' = c.firstIndex
    /\ lastIndex' = c.lastIndex
    /\ sizeInBytes' = c.sizeInBytes
    /\ lastResetTime' = c.lastResetTime
    /\ autoResetBaseSize' = c.autoResetBaseSize
    /\ resetStreamState' = c.resetStreamState
    /\ resetStreamCtxId' = c.resetStreamCtxId
    /\ resetStreamSize' = c.resetStreamSize
    /\ resetStreamStartIndex' = c.resetStreamStartIndex
    /\ resetStreamMessageCount' = c.resetStreamMessageCount
    /\ resetStreamConsumer' = c.resetStreamConsumer
    /\ resetStreamAddError' = c.resetStreamAddError
    /\ log' = c.log
    /\ pending' = c.pending
    /\ now' = c.now
    /\ invites' = c.invites
    /\ thumbnailCtxId' = c.thumbnailCtxId
    /\ thumbnailCorrelator' = c.thumbnailCorrelator
    /\ correlatorIndex' = c.correlatorIndex
    /\ thumbnail' = c.thumbnail
    /\ UNCHANGED codec

\* the model follows a call only while its counters stay within the bounds
WithinBounds(c) ==
    /\ c.lastIndex <= MaxIndex
    /\ c.resetStreamMessageCount <= MaxStreamed
    /\ c.resetStreamSize <= MaxStreamBytes
    /\ c.correlatorIndex <= MaxStarts

Return(c, value) == [c EXCEPT !.ret = value]
\* an out parameter the call assigned
Out(c, value) == [c EXCEPT !.out = value]
Hook(c, name) == [c EXCEPT !.hooks = Append(@, name)]
Emit(c) == [c EXCEPT !.emitted = TRUE]

\* --------------------------------------------------------- size accounting
currentSizeLimit(c) ==
    LET overrideSizeLimit == c.overrideLimit
    IN IF overrideSizeLimit = 0 THEN c.baseSizeLimit ELSE overrideSizeLimit

\* variant: the bytes of the reset stream count against the limit too
hasSpaceFor_CountsStream(c, bytes, extra) ==
    LET sizeLimit == currentSizeLimit(c)
    IN sizeLimit <= 0
       \/ c.sizeInBytes + c.resetStreamSize + bytes <= sizeLimit + extra
\* variant: a message that fills the limit exactly is turned away
hasSpaceFor_Strict(c, bytes, extra) ==
    LET sizeLimit == currentSizeLimit(c)
    IN sizeLimit <= 0 \/ c.sizeInBytes + bytes < sizeLimit + extra

hasSpaceFor(c, bytes, extra) ==
    LET sizeLimit == currentSizeLimit(c)
    IN sizeLimit <= 0 \/ c.sizeInBytes + bytes <= sizeLimit + extra

\* the emergency allowance of the header
EmergencyExtra == 5

hasRegularSpaceFor(c, bytes) == hasSpaceFor(c, bytes, 0)
hasEmergencySpaceFor(c, bytes) == hasSpaceFor(c, bytes, EmergencyExtra)

\* variant: the test lets the emergency allowance through
exceedsSizeLimit_Emergency(c, newSize) ==
    LET sizeLimit == currentSizeLimit(c)
    IN sizeLimit > 0 /\ newSize > sizeLimit + EmergencyExtra

\* the test a new total size has to pass: reset() and the stream callback
exceedsSizeLimit(c, newSize) ==
    LET sizeLimit == currentSizeLimit(c)
    IN sizeLimit > 0 /\ newSize > sizeLimit

\* variant: lastIndex is set to the message count
historyLoaded_OffByOne(c, loaded) ==
    LET size == SumLen(loaded)
        messageCount == Len(loaded)
    IN [c EXCEPT !.sizeInBytes = size,
                 !.lastIndex = messageCount,
                 !.autoResetBaseSize = size,
                 !.log = loaded]

\* variant: the base of the threshold is not set on loading
historyLoaded_NoBase(c, loaded) ==
    LET size == SumLen(loaded)
        messageCount == Len(loaded)
    IN [c EXCEPT !.sizeInBytes = size,
                 !.lastIndex = messageCount - 1,
                 !.log = loaded]
historyLoaded(c, loaded) ==
    LET size == SumLen(loaded)
        messageCount == Len(loaded)
    IN [c EXCEPT !.sizeInBytes = size,
                 !.lastIndex = messageCount - 1,
                 !.autoResetBaseSize = size,
                 !.log = loaded]

\* variant: the size of the message is not accounted
addMessageInternal_NoSize(c, msg, bytes) ==
    Hook([c EXCEPT !.lastIndex = @ + 1,
                   !.log = Append(@, msg)],
         "historyAdd")

addMessageInternal(c, msg, bytes) ==
    Hook([c EXCEPT !.sizeInBytes = @ + bytes,
                   !.lastIndex = @ + 1,
                   !.log = Append(@, msg)],
         "historyAdd")

addMessage(c, msg) ==
    LET bytes == length(msg)
    IN IF hasRegularSpaceFor(c, bytes)
       THEN Return(Emit(addMessageInternal(c, msg, bytes)), "true")
       ELSE Return(c, "false")

addEmergencyMessage(c, msg) ==
    LET bytes == length(msg)
    IN IF hasEmergencySpaceFor(c, bytes)
       THEN Return(Emit(addMessageInternal(c, msg, bytes)), "true")
       ELSE Return(c, "false")

\* --------------------------------------------------------- streamed reset
\* variant: an abort drops the live log as well
abortActiveStreamedReset_DropsLive(c) ==
    [Hook(c, "discardResetStream") EXCEPT
        !.pending = NoPending,
        !.resetStreamState = "None",
        !.resetStreamCtxId = 0,
        !.resetStreamConsumer = NoConsumer,
        !.firstIndex = c.lastIndex + 1]
abortActiveStreamedReset(c) ==
    [Hook(c, "discardResetStream") EXCEPT
        !.pending = NoPending,
        !.resetStreamState = "None",
        !.resetStreamCtxId = 0,
        !.resetStreamConsumer = NoConsumer]

\* variant: a prepared streamed reset is aborted as well
abortStreamedReset_AnyActive(c, ctxId) ==
    IF c.resetStreamState # "None"
    THEN IF ctxId < 0 \/ ctxId = c.resetStreamCtxId
         THEN Return(abortActiveStreamedReset(c), "Ok")
         ELSE Return(c, "InvalidUser")
    ELSE Return(c, "NotActive")
abortStreamedReset(c, ctxId) ==
    IF c.resetStreamState = "Streaming"
    THEN IF ctxId < 0 \/ ctxId = c.resetStreamCtxId
         THEN Return(abortActiveStreamedReset(c), "Ok")
         ELSE Return(c, "InvalidUser")
    ELSE Return(c, "NotActive")

\* ----------------------------------------------------------- history index
\* m_id, the id the session was constructed with
SessionId == "session"

HistoryIndex(sessionId, startId, historyPos) ==
    [sessionId |-> sessionId, startId |-> startId, historyPos |-> historyPos]

\* an index names a session, a start and a position; which of the three
\* tests the class makes does not matter below: a session has a non-empty
\* id, a positive reset time and no retained position under 0
isValid(hi) == hi.sessionId # "" /\ hi.startId >= 0 /\ hi.historyPos >= 0

historyIndex(c) == HistoryIndex(SessionId, c.lastResetTime, c.lastIndex)

\* variant: the reset epoch is not compared
canSkipToHistoryIndex_AnyEpoch(c, hi) ==
    IF isValid(hi) /\ hi.sessionId = SessionId
    THEN hi.historyPos >= c.firstIndex /\ hi.historyPos <= c.lastIndex
    ELSE FALSE

canSkipToHistoryIndex(c, hi) ==
    IF isValid(hi) /\ hi.sessionId = SessionId /\ hi.startId = c.lastResetTime
    THEN LET historyPos == hi.historyPos
         IN historyPos >= c.firstIndex /\ historyPos <= c.lastIndex
    ELSE FALSE
\* ------------------------------------------------------ auto-reset threshold
\* variant: the whole limit
ninetyPercent_Whole(sizeLimit) == sizeLimit

\* size_t(sizeLimit * 0.9): the product in double precision, truncated; for
\* limits up to INT_MAX, which clampSizeLimit ensures, that is 9/10 rounded
\* down
ninetyPercent(sizeLimit) == (sizeLimit * 9) \div 10

qMin(a, b) == IF b < a THEN b ELSE a

\* autoResetThreshold is what the autoResetThreshold() hook returns
effectiveAutoResetThreshold(c, autoResetThreshold) ==
    IF autoResetThreshold > 0
    THEN LET t == autoResetThreshold + c.autoResetBaseSize
             sizeLimit == currentSizeLimit(c)
         IN IF sizeLimit > 0 THEN qMin(t, ninetyPercent(sizeLimit)) ELSE t
    ELSE autoResetThreshold
\* ------------------------------------------------------------ atomic reset
\* variant: the clock is read in seconds
currentMSecsSinceEpoch_Secs(c) == c.now \div MSecsPerSec
currentMSecsSinceEpoch(c) == c.now
currentSecsSinceEpoch(c) == c.now \div MSecsPerSec

\* variant: the base of the threshold keeps its value
resetAutoResetThresholdBase_Stale(c) == c
resetAutoResetThresholdBase(c) == [c EXCEPT !.autoResetBaseSize = c.sizeInBytes]

\* variant: the indices start over with the new history
reset_Rewinds(c, newHistory) ==
    LET newSize == SumLen(newHistory)
    IN IF exceedsSizeLimit(c, newSize)
       THEN Return(c, "false")
       ELSE LET c1 == abortStreamedReset(c, -1)
                c2 == [c1 EXCEPT !.sizeInBytes = newSize,
                                 !.lastResetTime = currentMSecsSinceEpoch(c),
                                 !.firstIndex = 0,
                                 !.lastIndex = Len(newHistory) - 1]
                c3 == resetAutoResetThresholdBase(c2)
                c4 == Hook([c3 EXCEPT !.log = newHistory], "historyReset")
            IN Return(Emit(c4), "true")
reset(c, newHistory) ==
    LET newSize == SumLen(newHistory)
    IN IF exceedsSizeLimit(c, newSize)
       THEN Return(c, "false")
       ELSE LET c1 == abortStreamedReset(c, -1)
                c2 == [c1 EXCEPT !.sizeInBytes = newSize,
                                 !.lastResetTime = currentMSecsSinceEpoch(c),
                                 !.firstIndex = c1.lastIndex + 1,
                                 !.lastIndex = @ + Len(newHistory)]
                c3 == resetAutoResetThresholdBase(c2)
                c4 == Hook([c3 EXCEPT !.log = newHistory], "historyReset")
            IN Return(Emit(c4), "true")

\* variant: a prepared streamed reset does not count as active
streamedResetActive_OnlyStreaming(c) == c.resetStreamState = "Streaming"
streamedResetActive(c) == c.resetStreamState # "None"

\* variant: the counters of the previous stream are kept
beginStreaming_StaleCounters(c, ctxId, serverSideStateMessages) ==
    [c EXCEPT !.pending = [open |-> TRUE, msgs |-> serverSideStateMessages],
              !.resetStreamState = "Streaming",
              !.resetStreamCtxId = ctxId,
              !.resetStreamStartIndex = c.lastIndex + 1]

\* the pending log is open: the stream begins
beginStreaming(c, ctxId, serverSideStateMessages) ==
    [c EXCEPT !.pending = [open |-> TRUE, msgs |-> serverSideStateMessages],
              !.resetStreamState = "Streaming",
              !.resetStreamCtxId = ctxId,
              !.resetStreamSize = 0,
              !.resetStreamStartIndex = c.lastIndex + 1,
              !.resetStreamMessageCount = 0]

\* openResult is what the openResetStream hook answers
startStreamedReset(c, ctxId, correlator, serverSideStateMessages, openResult) ==
    IF streamedResetActive(c)
    THEN Return(c, "AlreadyActive")
    ELSE LET softResetMsg == makeSoftResetMessage
             resetStartMsg == makeStreamedResetStart(ctxId, correlator)
             softResetBytes == length(softResetMsg)
             resetStartBytes == length(resetStartMsg)
         IN IF ~hasRegularSpaceFor(c, softResetBytes + resetStartBytes)
            THEN Return(c, "OutOfSpace")
            ELSE LET c1 == addMessageInternal(c, softResetMsg,
                                              softResetBytes)
                     c2 == addMessageInternal(c1, resetStartMsg,
                                              resetStartBytes)
                     c3 == Hook(c2, "openResetStream")
                     c4 == IF openResult = "Ok"
                           THEN beginStreaming(c3, ctxId,
                                               serverSideStateMessages)
                           ELSE c3
                 IN Return(Emit(c4), openResult)

\* variant: the message keeps the context id it came with
setContextId_Keep(msg, contextId) == msg
\* the message as of the given context
setContextId(msg, contextId) == [msg EXCEPT !.ctx = contextId]
\* The callback of the reset stream consumer; it answers in ret.
\* backendResult is what the addResetStreamMessage hook answers for msg.
receiveResetStreamMessage(c, msg, backendResult) ==
    IF isControl(msg) \/ (isServerMeta(msg) /\ ~isChat(msg))
    THEN Return([c EXCEPT !.resetStreamAddError = "DisallowedType"], "false")
    ELSE LET newSize == c.resetStreamSize + length(msg)
         IN IF exceedsSizeLimit(c, newSize)
            THEN Return([c EXCEPT !.resetStreamAddError = "OutOfSpace"],
                        "false")
            ELSE LET stamped == setContextId(msg, c.resetStreamCtxId)
                     c1 == Hook([c EXCEPT !.resetStreamSize = newSize],
                                "addResetStreamMessage")
                 IN IF backendResult = "Ok"
                    THEN Return([c1 EXCEPT
                                    !.pending.msgs = Append(@, stamped),
                                    !.resetStreamMessageCount = @ + 1],
                                "true")
                    ELSE Return([c1 EXCEPT
                                    !.resetStreamAddError = backendResult],
                                "false")

\* The consumer hands the messages it decodes to the callback one by one and
\* stops at the first one the callback rejects; ret tells whether all went
\* through.  failAt is the position at which the backend fails with failRes
\* (0: it does not), counted from position i of the first message.
RECURSIVE DP_reset_stream_consumer_deliver(_, _, _, _, _)
DP_reset_stream_consumer_deliver(c, msgs, i, failAt, failRes) ==
    IF msgs = <<>>
    THEN Return(c, "true")
    ELSE LET c1 == receiveResetStreamMessage(
                       c, Head(msgs), IF i = failAt THEN failRes ELSE "Ok")
         IN IF c1.ret = "true"
            THEN DP_reset_stream_consumer_deliver(
                     c1, Tail(msgs), i + 1, failAt, failRes)
            ELSE c1

\* What the environment decides during a push: whether the consumer can be
\* allocated, how many of the payload's messages it decodes by now (the
\* others show later, as part of a later push or of the final drain), whether
\* the bytes are corrupt, and where the backend fails.
BackendAddFailures == {"OutOfSpace", "ConsumerError"}

PushEnv(allocOk, delivered, corrupt, failAt, failRes) ==
    [allocOk |-> allocOk, delivered |-> delivered, corrupt |-> corrupt,
     failAt |-> failAt, failRes |-> failRes]

\* variant: the type of the message is looked at first
addStreamResetMessage_TypeFirst(c, ctxId, msg, env) ==
    IF msg.type # "resetstream"
    THEN Return(c, "BadType")
    ELSE IF c.resetStreamState # "Streaming"
    THEN Return(c, "NotActive")
    ELSE IF c.resetStreamCtxId # ctxId
    THEN Return(c, "InvalidUser")
    ELSE IF msg.payload = <<>>
    THEN Return(c, "Ok")
    ELSE IF c.resetStreamConsumer = NoConsumer /\ ~env.allocOk
    THEN Return(abortActiveStreamedReset(c), "ConsumerError")
    ELSE LET c1 == [c EXCEPT !.resetStreamConsumer = LiveConsumer,
                             !.resetStreamAddError = "ConsumerError"]
             c2 == DP_reset_stream_consumer_deliver(
                       c1, SubSeq(msg.payload, 1, env.delivered), 1,
                       env.failAt, env.failRes)
         IN IF c2.ret = "true" /\ ~env.corrupt
            THEN Return(c2, "Ok")
            ELSE Return(c2, c2.resetStreamAddError)
addStreamResetMessage(c, ctxId, msg, env) ==
    IF c.resetStreamState # "Streaming"
    THEN Return(c, "NotActive")
    ELSE IF c.resetStreamCtxId # ctxId
    THEN Return(c, "InvalidUser")
    ELSE IF msg.type # "resetstream"
    THEN Return(c, "BadType")
    ELSE IF msg.payload = <<>>
    THEN Return(c, "Ok")
    ELSE IF c.resetStreamConsumer = NoConsumer /\ ~env.allocOk
    THEN Return(abortActiveStreamedReset(c), "ConsumerError")
    ELSE LET c1 == [c EXCEPT !.resetStreamConsumer = LiveConsumer,
                             !.resetStreamAddError = "ConsumerError"]
             c2 == DP_reset_stream_consumer_deliver(
                       c1, SubSeq(msg.payload, 1, env.delivered), 1,
                       env.failAt, env.failRes)
         IN IF c2.ret = "true" /\ ~env.corrupt
            THEN Return(c2, "Ok")
            ELSE Return(c2, c2.resetStreamAddError)

\* What the environment decides during prepareStreamedReset: the messages
\* the consumer still held (leftover), whether its stream ends well
\* (finishOk), where the backend fails while they are delivered, what the
\* backend answers for the CaughtUp marker and what prepareResetStream answers.
BackendPrepareFailures == {"OutOfSpace", "ConsumerError"}

PrepareEnv(leftover, finishOk, failAt, failRes, caughtUpResult, prepareResult) ==
    [leftover |-> leftover, finishOk |-> finishOk, failAt |-> failAt,
     failRes |-> failRes, caughtUpResult |-> caughtUpResult,
     prepareResult |-> prepareResult]

\* variant: a failing prepareResetStream leaves the stream open
stateAfterPrepare_Keep(result) ==
    IF result = "Ok" THEN "Prepared" ELSE "Streaming"
\* variant: the stream counts as prepared whatever the hook answers
stateAfterPrepare_Always(result) == "Prepared"
\* the state the prepareResetStream hook's answer leads to
stateAfterPrepare(result) == IF result = "Ok" THEN "Prepared" ELSE "None"

\* free_finish drains what the consumer holds through the callback
DP_reset_stream_consumer_free_finish(c, env) ==
    LET c1 == IF c.resetStreamConsumer = NoConsumer
              THEN Return(c, "true")
              ELSE DP_reset_stream_consumer_deliver(
                       c, env.leftover, 1, env.failAt, env.failRes)
    IN Return(c1, IF c1.ret = "true" /\ env.finishOk THEN "true" ELSE "false")

\* variant: a stream announced as empty is let through
prepareStreamedReset_ZeroAllowed(c, ctxId, expectedMessageCount, env) ==
    IF c.resetStreamState # "Streaming"
    THEN Return(c, "NotActive")
    ELSE IF c.resetStreamCtxId # ctxId
    THEN Return(c, "InvalidUser")
    ELSE LET c1 == [c EXCEPT !.resetStreamAddError = "ConsumerError"]
             c2 == DP_reset_stream_consumer_free_finish(c1, env)
             freeOk == c2.ret = "true"
             c3 == [c2 EXCEPT !.resetStreamConsumer = NoConsumer]
         IN IF ~freeOk
            THEN Return(c3, IF c3.resetStreamAddError = "OutOfSpace"
                            THEN "OutOfSpace" ELSE "ConsumerError")
            ELSE IF c3.resetStreamMessageCount # expectedMessageCount
            THEN Return(abortActiveStreamedReset(c3), "InvalidMessageCount")
            ELSE LET c4 == Hook(c3, "addResetStreamMessage")
                 IN IF env.caughtUpResult = "OutOfSpace"
                    THEN Return(c4, "OutOfSpace")
                    ELSE IF env.caughtUpResult # "Ok"
                    THEN Return(c4, "ConsumerError")
                    ELSE LET c5 == Hook([c4 EXCEPT !.pending.msgs =
                                            Append(@, makeCaughtUp(0))],
                                        "prepareResetStream")
                             result == env.prepareResult
                         IN Return([c5 EXCEPT
                                       !.resetStreamState =
                                           stateAfterPrepare(result),
                                       !.resetStreamCtxId = 0],
                                   result)
prepareStreamedReset(c, ctxId, expectedMessageCount, env) ==
    IF c.resetStreamState # "Streaming"
    THEN Return(c, "NotActive")
    ELSE IF c.resetStreamCtxId # ctxId
    THEN Return(c, "InvalidUser")
    ELSE LET c1 == [c EXCEPT !.resetStreamAddError = "ConsumerError"]
             c2 == DP_reset_stream_consumer_free_finish(c1, env)
             freeOk == c2.ret = "true"
             c3 == [c2 EXCEPT !.resetStreamConsumer = NoConsumer]
         IN IF ~freeOk
            THEN Return(c3, IF c3.resetStreamAddError = "OutOfSpace"
                            THEN "OutOfSpace" ELSE "ConsumerError")
            ELSE IF c3.resetStreamMessageCount # expectedMessageCount
                    \/ expectedMessageCount = 0
            THEN Return(abortActiveStreamedReset(c3), "InvalidMessageCount")
            ELSE LET c4 == Hook(c3, "addResetStreamMessage")
                 IN IF env.caughtUpResult = "OutOfSpace"
                    THEN Return(c4, "OutOfSpace")
                    ELSE IF env.caughtUpResult # "Ok"
                    THEN Return(c4, "ConsumerError")
                    ELSE LET c5 == Hook([c4 EXCEPT !.pending.msgs =
                                            Append(@, makeCaughtUp(0))],
                                        "prepareResetStream")
                             result == env.prepareResult
                         IN Return([c5 EXCEPT
                                       !.resetStreamState =
                                           stateAfterPrepare(result),
                                       !.resetStreamCtxId = 0],
                                   result)

\* The backend's resolveResetStream: it finalizes the pending log, which may
\* take in the live messages appended since the stream started (includeTail),
\* and reports the message count and byte size of the result.
liveSinceStreamStart(c) ==
    LET from == IF c.resetStreamStartIndex > c.firstIndex
                THEN c.resetStreamStartIndex ELSE c.firstIndex
    IN SubSeq(c.log, from - c.firstIndex + 1, Len(c.log))

resolveResetStream(c, includeTail) ==
    LET final == c.pending.msgs
                 \o (IF includeTail THEN liveSinceStreamStart(c) ELSE <<>>)
    IN [msgs |-> final, messageCount |-> Len(final),
        sizeInBytes |-> SumLen(final)]

\* variant: the resolve leaves firstIndex where it is
resolveStreamedReset_KeepsFirst(c, ok, includeTail) ==
    IF c.resetStreamState # "Prepared"
    THEN Return(c, "false")
    ELSE LET b == resolveResetStream(c, includeTail)
             c1 == [Hook(c, "resolveResetStream") EXCEPT
                       !.resetStreamState = "None",
                       !.resetStreamCtxId = 0]
         IN IF ~ok
            THEN Return(c1, "false")
            ELSE Return([c1 EXCEPT !.sizeInBytes = b.sizeInBytes,
                                   !.lastIndex = @ + b.messageCount,
                                   !.autoResetBaseSize = c.resetStreamSize,
                                   !.log = b.msgs,
                                   !.pending = NoPending],
                        "true")
\* variant: firstIndex is taken from lastIndex after it has moved
resolveStreamedReset_LateFirstIndex(c, ok, includeTail) ==
    IF c.resetStreamState # "Prepared"
    THEN Return(c, "false")
    ELSE LET b == resolveResetStream(c, includeTail)
             newFirstIndex == c.lastIndex + b.messageCount + 1
             c1 == [Hook(c, "resolveResetStream") EXCEPT
                       !.resetStreamState = "None",
                       !.resetStreamCtxId = 0]
         IN IF ~ok
            THEN Return(c1, "false")
            ELSE Return([c1 EXCEPT !.sizeInBytes = b.sizeInBytes,
                                   !.firstIndex = newFirstIndex,
                                   !.lastIndex = @ + b.messageCount,
                                   !.autoResetBaseSize = c.resetStreamSize,
                                   !.log = b.msgs,
                                   !.pending = NoPending],
                        "true")
\* ok is whether the backend's resolveResetStream succeeds; the offset the
\* call hands out is outOffset
resolveStreamedReset(c, ok, includeTail) ==
    IF c.resetStreamState # "Prepared"
    THEN Return(c, "false")
    ELSE LET newFirstIndex == c.lastIndex + 1
             b == resolveResetStream(c, includeTail)
             c1 == [Hook(c, "resolveResetStream") EXCEPT
                       !.resetStreamState = "None",
                       !.resetStreamCtxId = 0]
         IN IF ~ok
            THEN Return(c1, "false")
            ELSE Return([c1 EXCEPT !.sizeInBytes = b.sizeInBytes,
                                   !.firstIndex = newFirstIndex,
                                   !.lastIndex = @ + b.messageCount,
                                   !.autoResetBaseSize = c.resetStreamSize,
                                   !.log = b.msgs,
                                   !.pending = NoPending],
                        "true")

outOffset(c, ok, includeTail) == resolveResetStream(c, includeTail).messageCount

\* ----------------------------------------------------------------- invites
\* the limits of the header, scaled down
MAX_INVITES == 2
MAX_INVITE_USES == 2

\* QHash::insert, operator[] with an assignment, and QHash::remove
Put(hash, key, value) ==
    [k \in DOMAIN hash \cup {key} |-> IF k = key THEN value ELSE hash[k]]
Remove(hash, key) == [k \in DOMAIN hash \ {key} |-> hash[k]]

qBound(min, val, max) == IF val < min THEN min ELSE IF val > max THEN max ELSE val

hasUsesRemaining(invite) == Cardinality(DOMAIN invite.uses) < invite.maxUses

\* variant: the first identifier handed out is taken, in use or not
generateInviteSecret_First(c, ids) == Head(ids)

\* ids are the identifiers Ulid::makeShortIdentifier hands out, in order;
\* the loop ends at the first one that is not a secret in use
RECURSIVE generateInviteSecret(_, _)
generateInviteSecret(c, ids) ==
    IF Head(ids) \in DOMAIN c.invites
    THEN generateInviteSecret(c, Tail(ids))
    ELSE Head(ids)

\* variant: the number of uses asked for is stored as it comes
resetInvite_Unclamped(invite, secret, createdBy, at, maxUses, trust, op) ==
    [secret |-> secret, creator |-> createdBy, at |-> at,
     maxUses |-> maxUses, uses |-> EmptyHash, trust |-> trust, op |-> op]

resetInvite(invite, secret, createdBy, at, maxUses, trust, op) ==
    [secret |-> secret, creator |-> createdBy, at |-> at,
     maxUses |-> qBound(1, maxUses, MAX_INVITE_USES), uses |-> EmptyHash,
     trust |-> trust, op |-> op]

\* m_invites[secret] is the stored invite or a fresh one; either is reset
setInvite(c, secret, createdBy, at, maxUses, trust, op) ==
    LET invite == IF secret \in DOMAIN c.invites THEN c.invites[secret]
                  ELSE EmptyHash
    IN [c EXCEPT !.invites =
           Put(@, secret, resetInvite(invite, secret, createdBy, at, maxUses,
                                      trust, op))]

\* at is the clock's reading, ids what the identifier generator hands out;
\* ret is the secret of the invite returned, or null
createInvite(c, createdBy, maxUses, trust, op, at, ids) ==
    IF Cardinality(DOMAIN c.invites) < MAX_INVITES
    THEN LET secret == generateInviteSecret(c, ids)
         IN Return(setInvite(c, secret, createdBy, at, maxUses, trust, op),
                   secret)
    ELSE Return(c, "null")

removeInvite(c, secret) ==
    IF secret \in DOMAIN c.invites
    THEN Return([c EXCEPT !.invites = Remove(@, secret)], "true")
    ELSE Return(c, "false")

\* the invites the loop may end on: those with the smallest at; which one
\* of several is up to the order of the hash
oldestSecrets(c) ==
    {s \in DOMAIN c.invites :
        \A t \in DOMAIN c.invites : c.invites[s].at <= c.invites[t].at}

\* oldestSecret is the secret the loop ended on, "" when there is no invite
removeOldestInvite(c, oldestSecret) ==
    IF oldestSecret # "" THEN removeInvite(c, oldestSecret)
    ELSE Return(c, "false")

\* variant: the stored name is compared on a probe as well
keepsName_Compare(use, u, name) == u.name = name

\* the test on a recorded use u: a probe, or the name it was recorded with
keepsName(use, u, name) == ~use \/ u.name = name

\* variant: the stored name stays
rename_Not(uses, clientKey, name) == uses

\* u->name = name
rename(uses, clientKey, name) == [uses EXCEPT ![clientKey].name = name]

\* variant: the use is not recorded
insertUse_Forget(uses, clientKey, name) == uses

\* invite.uses.insert(clientKey, InviteUse{name, at}); the time of the use
\* is read by nothing in the store and is left out
insertUse(uses, clientKey, name) == Put(uses, clientKey, [name |-> name])
\* variant: the uses left are tested before the key is looked up
checkInviteFor_CapacityFirst(c, clientKey, name, secret, use) ==
    IF clientKey = ""
    THEN Return(c, "NoClientKey")
    ELSE IF secret # "" /\ secret \in DOMAIN c.invites
    THEN LET invite == c.invites[secret]
         IN IF ~hasUsesRemaining(invite)
            THEN Return(c, "MaxUsesReached")
            ELSE IF clientKey \in DOMAIN invite.uses
            THEN IF keepsName(use, invite.uses[clientKey], name)
                 THEN Return(c, "AlreadyInvited")
                 ELSE Return([c EXCEPT !.invites[secret].uses =
                                 rename(@, clientKey, name)],
                             "AlreadyInvitedNameChanged")
            ELSE IF use
            THEN Return([c EXCEPT !.invites[secret].uses =
                            insertUse(@, clientKey, name)],
                        "InviteUsed")
            ELSE Return(c, "InviteOk")
    ELSE Return(c, "NotFound")
checkInviteFor(c, clientKey, name, secret, use) ==
    IF clientKey = ""
    THEN Return(c, "NoClientKey")
    ELSE IF secret # "" /\ secret \in DOMAIN c.invites
    THEN LET invite == c.invites[secret]
         IN IF clientKey \in DOMAIN invite.uses
            THEN IF keepsName(use, invite.uses[clientKey], name)
                 THEN Return(c, "AlreadyInvited")
                 ELSE Return([c EXCEPT !.invites[secret].uses =
                                 rename(@, clientKey, name)],
                             "AlreadyInvitedNameChanged")
            ELSE IF hasUsesRemaining(invite)
            THEN IF use
                 THEN Return([c EXCEPT !.invites[secret].uses =
                                 insertUse(@, clientKey, name)],
                             "InviteUsed")
                 ELSE Return(c, "InviteOk")
            ELSE Return(c, "MaxUsesReached")
    ELSE Return(c, "NotFound")

checkInvite(c, client, secret, use) ==
    checkInviteFor(c, client.sid, client.username, secret, use)

\* -------------------------------------------------------------- thumbnails
\* strings and byte arrays are sequences of characters; toUtf8 of the
\* characters used here is one byte each
HexDigits == <<"0", "1", "2", "3", "4", "5", "6", "7", "8", "9", "a", "b", "c", "d", "e", "f">>

\* QString::number(n, 16)
RECURSIVE number16(_)
number16(n) ==
    IF n < 16 THEN <<HexDigits[n + 1]>>
    ELSE number16(n \div 16) \o <<HexDigits[(n % 16) + 1]>>

toUtf8(string) == string

\* variant: any data passes
startsWith_Anything(data, prefix) == TRUE

\* QByteArray::startsWith
startsWith(data, prefix) ==
    /\ Len(data) >= Len(prefix)
    /\ SubSeq(data, 1, Len(prefix)) = prefix

\* variant: the counter stays
postIncrement_Stuck(index) == index

\* correlatorIndex++ on a uint32_t, which wraps after 2^32 generations; the
\* model stops at MaxStarts, far below
postIncrement(index) == index + 1

\* QStringLiteral("%1:%2").arg(index in hex, milliseconds in hex)
makeCorrelator(index, msecs) == number16(index) \o <<":">> \o number16(msecs)

\* the backend stores the bytes and says so, or fails and keeps what it has
setThumbnail(c, data, ok) ==
    LET called == Hook(c, "setThumbnail")
    IN IF ok THEN Return([called EXCEPT !.thumbnail = data], "true")
       ELSE Return(called, "false")

hasThumbnail(c) == c.thumbnail # <<>>

\* ret is the result, out the correlator handed back through outCorrelator
startThumbnailGeneration(c, contextId) ==
    IF contextId = 0
    THEN Return(c, "InvalidUser")
    ELSE IF contextId = c.thumbnailCtxId
    THEN Return(c, "AlreadyGenerating")
    ELSE LET correlator == makeCorrelator(c.correlatorIndex,
                                          currentMSecsSinceEpoch(c))
         IN Return(Out([c EXCEPT !.thumbnailCtxId = contextId,
                                 !.thumbnailCorrelator = correlator,
                                 !.correlatorIndex = postIncrement(@)],
                       correlator),
                   "Ok")

\* ok is what the backend's setThumbnail answers, if it is asked
finishThumbnailGeneration(c, contextId, data, ok) ==
    IF c.thumbnailCtxId # contextId
    THEN Return(c, "InvalidUser")
    ELSE LET correlatorBytes == toUtf8(c.thumbnailCorrelator)
             cleared == [c EXCEPT !.thumbnailCtxId = 0,
                                  !.thumbnailCorrelator = <<>>]
             dataSize == Len(data)
             correlatorSize == Len(correlatorBytes)
         IN IF ~startsWith(data, correlatorBytes)
            THEN Return(c, "InvalidCorrelator")
            ELSE IF dataSize <= correlatorSize
            THEN Return(cleared, "NoData")
            ELSE IF setThumbnail(cleared,
                                 SubSeq(data, correlatorSize + 1, dataSize),
                                 ok).ret # "true"
            THEN Return(setThumbnail(cleared,
                                     SubSeq(data, correlatorSize + 1, dataSize),
                                     ok), "WriteError")
            ELSE Return(setThumbnail(cleared,
                                     SubSeq(data, correlatorSize + 1, dataSize),
                                     ok), "Ok")

cancelThumbnailGeneration(c, contextId, correlator) ==
    IF /\ (contextId = 0 \/ contextId = c.thumbnailCtxId)
       /\ (correlator = <<>> \/ correlator = c.thumbnailCorrelator)
    THEN Return([c EXCEPT !.thumbnailCtxId = 0, !.thumbnailCorrelator = <<>>],
                "true")
    ELSE Return(c, "false")

purgeThumbnail(c, ok) == Return(setThumbnail(c, <<>>, ok), "none")
\* ----------------------------------------------------------------- actions
\* outer messages handed to addStreamResetMessage
StreamMsgs ==
    {[type |-> "other", payload |-> <<>>]}
    \cup {[type |-> "resetstream", payload |-> p] : p \in Payloads}

\* an environment in which nothing fails
QuietPush(delivered) == PushEnv(TRUE, delivered, FALSE, 0, "Ok")
QuietPrepare(leftover) == PrepareEnv(leftover, TRUE, 0, "Ok", "Ok", "Ok")

\* The environments under which a push of msg differs: the allocation fails;
\* or the first d messages are decoded and the bytes are corrupt or not, or
\* the backend fails at one of the d.
PushEnvs(msg) ==
    {PushEnv(FALSE, 0, FALSE, 0, "Ok")}
    \cup {PushEnv(TRUE, d, k, 0, "Ok") :
              d \in 0..Len(msg.payload), k \in BOOLEAN}
    \cup {PushEnv(TRUE, d, FALSE, f, r) :
              d \in 1..Len(msg.payload), f \in 1..Len(msg.payload),
              r \in BackendAddFailures}

\* what a consumer may still hold when it is drained
Leftovers == {<<>>} \cup {<<m>> : m \in InnerMsgs}

\* The environments under which a prepare differs: the stream ends badly;
\* the backend fails on a leftover message, or on the CaughtUp marker; or
\* prepareResetStream answers.
PrepareEnvs ==
    {PrepareEnv(l, FALSE, 0, "Ok", "Ok", "Ok") : l \in Leftovers}
    \cup {PrepareEnv(l, TRUE, 1, r, "Ok", "Ok") :
              l \in Leftovers \ {<<>>}, r \in BackendAddFailures}
    \cup {PrepareEnv(l, TRUE, 0, "Ok", u, "Ok") :
              l \in Leftovers, u \in BackendAddFailures}
    \cup {PrepareEnv(l, TRUE, 0, "Ok", "Ok", p) :
              l \in Leftovers, p \in {"Ok"} \cup BackendPrepareFailures}

\* the environment is consulted only by a call that reaches it
Reaches(c, ctxId) ==
    c.resetStreamState = "Streaming" /\ c.resetStreamCtxId = ctxId

PushEnvsAt(c, ctxId, msg) ==
    IF Reaches(c, ctxId) /\ msg.type = "resetstream" /\ msg.payload # <<>>
    THEN PushEnvs(msg)
    ELSE {QuietPush(0)}

PrepareEnvsAt(c, ctxId) ==
    IF Reaches(c, ctxId) THEN PrepareEnvs ELSE {QuietPrepare(<<>>)}

Call(c) == WithinBounds(c) /\ Becomes(c)

HistoryLoaded ==
    \E loaded \in Histories :
        /\ lastIndex = -1
        /\ Call(historyLoaded(Self, loaded))

AddMessage == \E msg \in LiveMsgs : Call(addMessage(Self, msg))

AddEmergencyMessage ==
    \E msg \in LiveMsgs : Call(addEmergencyMessage(Self, msg))

Reset == \E newHistory \in Histories : Call(reset(Self, newHistory))

StartStreamedReset ==
    \E ctxId \in Starters, correlator \in Correlators, seed \in SeedLists,
       openResult \in OpenResults :
        Call(startStreamedReset(Self, ctxId, correlator, seed, openResult))

AddStreamResetMessage ==
    \E ctxId \in Ctx, msg \in StreamMsgs :
        \E env \in PushEnvsAt(Self, ctxId, msg) :
            Call(addStreamResetMessage(Self, ctxId, msg, env))

PrepareStreamedReset ==
    \E ctxId \in Ctx, expectedMessageCount \in ExpectedCounts :
        \E env \in PrepareEnvsAt(Self, ctxId) :
            Call(prepareStreamedReset(Self, ctxId, expectedMessageCount, env))

ResolveStreamedReset ==
    \E ok \in BOOLEAN, includeTail \in BOOLEAN :
        /\ ~ok => ~includeTail  \* a failing backend reports nothing
        /\ Call(resolveStreamedReset(Self, ok, includeTail))

AbortStreamedReset ==
    \E ctxId \in {-1} \cup Ctx : Call(abortStreamedReset(Self, ctxId))

Tick ==
    /\ now < StartTime + MaxTicks
    /\ now' = now + 1
    /\ UNCHANGED <<baseSizeLimit, overrideLimit, firstIndex, lastIndex,
                   sizeInBytes, lastResetTime, autoResetBaseSize,
                   resetStreamState, resetStreamCtxId, resetStreamSize,
                   resetStreamStartIndex, resetStreamMessageCount,
                   resetStreamConsumer, resetStreamAddError, log, pending,
                   invites, thumbnailCtxId, thumbnailCorrelator,
                   correlatorIndex, thumbnail, codec>>

\* what callers hand to the invite store
Secrets == {"s1", "s2"}
Creators == {"alice"}
RequestedUses == 0..3
InviteFlags == {<<TRUE, FALSE>>, <<FALSE, TRUE>>}
\* clock readings, in seconds
InviteTimes == {1, 2}
\* runs of identifiers the generator may hand out
IdRuns == {ids \in Secrets \X Secrets : ids[1] # ids[2]}
Clients ==
    [sid : {"", "k1", "k2", "k3"}, username : {"bob", "carol"}]

CreateInvite ==
    \E createdBy \in Creators, maxUses \in RequestedUses,
       flags \in InviteFlags, at \in InviteTimes, ids \in IdRuns :
        Call(createInvite(Self, createdBy, maxUses, flags[1], flags[2], at,
                          ids))

RemoveInvite == \E secret \in Secrets : Call(removeInvite(Self, secret))

RemoveOldestInvite ==
    \E oldestSecret \in IF invites = EmptyHash THEN {""}
                        ELSE oldestSecrets(Self) :
        Call(removeOldestInvite(Self, oldestSecret))

CheckInvite ==
    \E client \in Clients, secret \in Secrets \cup {""}, use \in BOOLEAN :
        Call(checkInvite(Self, client, secret, use))

\* what callers hand to the thumbnail handshake: context ids, with 0 for no
\* user, and image bytes
ThumbnailCtx == 0..2
ImageBytes == {<<>>, <<"p">>, <<"q", "p">>}
\* the correlators a caller may hold: the pending one, the first one the
\* session can have handed out, and one it has not
Correlators16 ==
    {thumbnailCorrelator, makeCorrelator(0, StartTime), <<"x", "x", "x">>}
\* a correlator followed by image bytes, or less than a correlator
ThumbnailData ==
    {correlator \o bytes : correlator \in Correlators16, bytes \in ImageBytes}
        \cup ImageBytes \cup {<<"0">>, <<"0", ":">>}

StartThumbnailGeneration ==
    \E contextId \in ThumbnailCtx :
        Call(startThumbnailGeneration(Self, contextId))

FinishThumbnailGeneration ==
    \E contextId \in ThumbnailCtx, data \in ThumbnailData, ok \in BOOLEAN :
        Call(finishThumbnailGeneration(Self, contextId, data, ok))

CancelThumbnailGeneration ==
    \E contextId \in ThumbnailCtx, correlator \in Correlators16 \cup {<<>>} :
        Call(cancelThumbnailGeneration(Self, contextId, correlator))

PurgeThumbnail == \E ok \in BOOLEAN : Call(purgeThumbnail(Self, ok))
\* values the autoResetThreshold() hook may return; 0 is no auto-reset
AutoResetThresholds == {0, 1, 3, 4, 5, 9, 20}
\* history indices a client may present: of this session or another, of
\* any reset epoch the clock allows, of any position around the log
HistoryIndices ==
    {HistoryIndex(sessionId, startId, historyPos) :
        sessionId \in {SessionId, "other", ""},
        startId \in {StartTime \div MSecsPerSec}
                        \cup StartTime..(StartTime + MaxTicks),
        historyPos \in (-1)..(MaxIndex + 1)}
\* the commands callers build: a command name, or none, arguments and
\* keyword arguments, either of which may be empty
CommandNames == {"", "kick-user", "mute"}
ArgLists ==
    {<<>>, <<Token("number", "3")>>,
     <<Token("number", "3"), Token("literal", "true")>>,
     <<String("url")>>, <<String(""), Token("literal", "null")>>}
KwargObjects ==
    {<<>>, [k \in {"ban"} |-> Token("literal", "true")],
     [k \in {"reason"} |-> String("x")],
     [k \in {"ban", "reason"} |->
         IF k = "ban" THEN Token("literal", "false") ELSE String("")]}
Commands ==
    {ServerCommand(cmd, args, kwargs) :
        cmd \in CommandNames, args \in ArgLists, kwargs \in KwargObjects}
\* messages that arrive from elsewhere: none, one of another type, and
\* server commands whose text is cut short or is no object
ForeignMessages ==
    {NullMessage,
     [type |-> "Chat", contextId |-> 1, payload |-> <<String("hello")>>],
     [type |-> DP_MSG_SERVER_COMMAND, contextId |-> 1,
      payload |-> <<Punct("{"), String("cmd"), Punct(":")>>],
     [type |-> DP_MSG_SERVER_COMMAND, contextId |-> 1,
      payload |-> <<Punct("["), String("cmd"), Punct("]")>>],
     [type |-> DP_MSG_SERVER_COMMAND, contextId |-> 1,
      payload |-> <<Punct("{"), String("args"), Punct(":"), String("mute"),
                    Punct("}")>>]}

\* the session itself, which the codec does not touch
sessionVars ==
    <<baseSizeLimit, overrideLimit, firstIndex, lastIndex, sizeInBytes,
      lastResetTime, autoResetBaseSize, resetStreamState, resetStreamCtxId,
      resetStreamSize, resetStreamStartIndex, resetStreamMessageCount,
      resetStreamConsumer, resetStreamAddError, log, pending, now, invites,
      thumbnailCtxId, thumbnailCorrelator, correlatorIndex, thumbnail>>

Make ==
    \E x \in Commands :
        /\ codec' = [codec EXCEPT !.command = x,
                                  !.message = make(x.cmd, x.args, x.kwargs)]
        /\ UNCHANGED sessionVars

Arrive ==
    \E msg \in ForeignMessages :
        /\ codec' = [codec EXCEPT !.command = NoCommand, !.message = msg]
        /\ UNCHANGED sessionVars

FromMessage ==
    /\ codec' = [codec EXCEPT !.parsed = fromMessage(codec.message)]
    /\ UNCHANGED sessionVars
Next ==
    \/ HistoryLoaded
    \/ AddMessage
    \/ AddEmergencyMessage
    \/ Reset
    \/ StartStreamedReset
    \/ AddStreamResetMessage
    \/ PrepareStreamedReset
    \/ ResolveStreamedReset
    \/ AbortStreamedReset

Spec == Init /\ [][Next]_vars

\* the log and the atomic reset under a running clock
NextClock ==
    \/ Tick
    \/ HistoryLoaded
    \/ AddMessage
    \/ AddEmergencyMessage
    \/ Reset

SpecClock == Init /\ [][NextClock]_vars

\* ------------------------------------------------------------------ claims
\* The claims about a call are stated on its outcome: the value the call
\* yields on the current state, for every argument and every answer of the
\* environment.

\* the number of times a call invoked the backend hook name
RECURSIVE Times(_, _)
Times(hooks, name) ==
    IF hooks = <<>> THEN 0
    ELSE (IF Head(hooks) = name THEN 1 ELSE 0) + Times(Tail(hooks), name)

\* the call changed nothing, invoked no hook, emitted nothing and returned value
Untouched(o, value) == o = Return(Self, value)

\* C1: in every reachable state sizeInBytes is the sum of length() over the
\* retained messages, the ones at the indices firstIndex..lastIndex.
C1_SizeIsSumOfLengths == sizeInBytes = SumLen(log)

\* a resolved streamed reset followed by an append
C1_Witness ==
    /\ firstIndex > 0
    /\ Len(log) >= 3
    /\ \E i \in 1..(Len(log) - 1) : log[i] = makeCaughtUp(0)
    /\ log[Len(log)] \in LiveMsgs
    /\ sizeInBytes >= 12

\* C2: in every reachable state firstIndex <= lastIndex + 1, and
\* lastIndex - firstIndex + 1 is the number of retained messages.
C2_IndexRange ==
    /\ firstIndex <= lastIndex + 1
    /\ lastIndex - firstIndex + 1 = Len(log)

\* a loaded history, reset to nothing, with one message appended since
C2_Witness ==
    /\ firstIndex = 2
    /\ lastIndex = 2
    /\ Len(log) = 1
    /\ resetStreamState = "None"

\* C3: addMessage admits msg iff there is no limit or sizeInBytes + length
\* is within the limit, addEmergencyMessage iff it is within the limit plus
\* the emergency allowance; an admitted message adds its length to
\* sizeInBytes and one to lastIndex, is handed to historyAdd once and
\* newMessagesAvailable is emitted; a rejected one changes and emits nothing.
C3_Admission ==
    \A msg \in LiveMsgs :
        LET limit == currentSizeLimit(Self)
            regular == addMessage(Self, msg)
            emergency == addEmergencyMessage(Self, msg)
            Admitted(o) ==
                /\ o.ret = "true"
                /\ o.sizeInBytes = sizeInBytes + msg.len
                /\ o.lastIndex = lastIndex + 1
                /\ o.firstIndex = firstIndex
                /\ o.log = Append(log, msg)
                /\ o.hooks = <<"historyAdd">>
                /\ o.emitted
        IN /\ IF limit = 0 \/ sizeInBytes + msg.len <= limit
              THEN Admitted(regular)
              ELSE Untouched(regular, "false")
           /\ IF limit = 0 \/ sizeInBytes + msg.len <= limit + EmergencyExtra
              THEN Admitted(emergency)
              ELSE Untouched(emergency, "false")

\* limit 10, allowance 5: 6 is in, a further 6 is rejected by addMessage and
\* admitted by addEmergencyMessage, which gives 12
C3_Witness ==
    /\ currentSizeLimit(Self) = 10
    /\ log = <<Msg("cmd", 6, 2)>>
    /\ sizeInBytes = 6
    /\ addMessage(Self, Msg("cmd", 6, 2)).ret = "false"
    /\ addEmergencyMessage(Self, Msg("cmd", 6, 2)).ret = "true"
    /\ addEmergencyMessage(Self, Msg("cmd", 6, 2)).sizeInBytes = 12

\* C4: reset(L) with no limit or with the lengths of L summing to at most the
\* limit succeeds: firstIndex is the old lastIndex + 1, lastIndex the old
\* lastIndex + |L|, sizeInBytes and autoResetBaseSize the sum of the lengths,
\* historyReset is called once and newMessagesAvailable is emitted; for the
\* empty L the retained range is empty.
C4_ResetEffects ==
    \A L \in Histories :
        LET limit == currentSizeLimit(Self)
            o == reset(Self, L)
        IN (limit = 0 \/ SumLen(L) <= limit) =>
               /\ o.ret = "true"
               /\ o.firstIndex = lastIndex + 1
               /\ o.lastIndex = lastIndex + Len(L)
               /\ o.sizeInBytes = SumLen(L)
               /\ o.autoResetBaseSize = SumLen(L)
               /\ o.log = L
               /\ Times(o.hooks, "historyReset") = 1
               /\ o.emitted
               /\ (L = <<>> => o.firstIndex = o.lastIndex + 1)

\* a session holding messages, on which resets to two messages and to
\* nothing succeed
C4_Witness ==
    /\ lastIndex >= 1
    /\ sizeInBytes > 0
    /\ autoResetBaseSize # 11
    /\ reset(Self, <<Msg("cmd", 5, 1), Msg("cmd", 6, 2)>>).ret = "true"
    /\ reset(Self, <<Msg("cmd", 5, 1), Msg("cmd", 6, 2)>>).autoResetBaseSize = 11
    /\ reset(Self, <<>>).firstIndex = lastIndex + 1

\* C5 as stated: after every successful reset lastResetTime is strictly
\* greater than before the call.
C5_StrictlyGreater ==
    \A L \in Histories :
        LET o == reset(Self, L)
        IN o.ret = "true" => o.lastResetTime > lastResetTime

\* C5: a successful reset sets lastResetTime to the clock's reading in
\* milliseconds; under a clock that never goes backwards it is never less
\* than before the call, and it is greater exactly when the clock has moved
\* on since lastResetTime was set.
C5_ResetStampsClock ==
    \A L \in Histories :
        LET o == reset(Self, L)
        IN o.ret = "true" =>
               /\ o.lastResetTime = now
               /\ o.lastResetTime >= lastResetTime
               /\ (o.lastResetTime > lastResetTime <=> now > lastResetTime)

\* a reset has stamped the session and the clock has moved on since
C5_Witness ==
    /\ lastResetTime >= StartTime
    /\ now > lastResetTime
    /\ reset(Self, <<>>).ret = "true"
    /\ reset(Self, <<>>).lastResetTime > lastResetTime

\* C6: reset(L) with a limit that the lengths of L exceed returns false and
\* leaves the whole session as it was: no field changes, historyReset is not
\* called, nothing is emitted.
C6_RejectedResetChangesNothing ==
    \A L \in Histories :
        LET limit == currentSizeLimit(Self)
        IN (limit > 0 /\ SumLen(L) > limit) =>
               Untouched(reset(Self, L), "false")

\* limit 10, a streamed reset under way: the reset to 5 and 6 is rejected
C6_Witness ==
    /\ currentSizeLimit(Self) = 10
    /\ resetStreamState = "Streaming"
    /\ sizeInBytes > 0
    /\ reset(Self, <<Msg("cmd", 5, 1), Msg("cmd", 6, 2)>>).ret = "false"

\* C7: after a successful reset(L) the streamed-reset state is None and the
\* pending log is discarded, whatever the state was before the call.
C7_ResetAbortsStreamedReset ==
    \A L \in Histories :
        LET o == reset(Self, L)
        IN o.ret = "true" =>
               /\ o.resetStreamState = "None"
               /\ o.pending = NoPending

\* C8: startStreamedReset while a streamed reset is Streaming or Prepared
\* returns AlreadyActive and changes nothing; openResetStream is not called.
C8_OneStreamedReset ==
    resetStreamState \in {"Streaming", "Prepared"} =>
        \A ctxId \in Ctx, correlator \in Correlators, seed \in SeedLists,
           openResult \in OpenResults :
            Untouched(startStreamedReset(Self, ctxId, correlator, seed,
                                         openResult),
                      "AlreadyActive")

\* a prepared streamed reset on which a start is attempted
C8_Witness ==
    /\ resetStreamState = "Prepared"
    /\ pending.open
    /\ startStreamedReset(Self, 2, 1, <<>>, "Ok").ret = "AlreadyActive"

\* C9: startStreamedReset in state None returns OutOfSpace and appends
\* nothing when the two start markers do not fit in regular space; otherwise
\* it appends exactly the two markers to the live log, and when
\* openResetStream answers Ok the state is Streaming, resetStreamCtxId the
\* caller, resetStreamSize and resetStreamMessageCount 0 and
\* resetStreamStartIndex the index after the two markers.
C9_StartStreamedReset ==
    resetStreamState = "None" =>
        \A ctxId \in Ctx, correlator \in Correlators, seed \in SeedLists,
           openResult \in OpenResults :
            LET limit == currentSizeLimit(Self)
                softResetMsg == makeSoftResetMessage
                resetStartMsg == makeStreamedResetStart(ctxId, correlator)
                bytes == softResetMsg.len + resetStartMsg.len
                o == startStreamedReset(Self, ctxId, correlator, seed,
                                        openResult)
            IN IF ~(limit = 0 \/ sizeInBytes + bytes <= limit)
               THEN Untouched(o, "OutOfSpace")
               ELSE /\ o.ret = openResult
                    /\ o.lastIndex = lastIndex + 2
                    /\ o.log = log \o <<softResetMsg, resetStartMsg>>
                    /\ o.sizeInBytes = sizeInBytes + bytes
                    /\ Times(o.hooks, "openResetStream") = 1
                    /\ openResult = "Ok" =>
                           /\ o.resetStreamState = "Streaming"
                           /\ o.resetStreamCtxId = ctxId
                           /\ o.resetStreamSize = 0
                           /\ o.resetStreamMessageCount = 0
                           /\ o.resetStreamStartIndex = o.lastIndex + 1
                           /\ o.resetStreamStartIndex = lastIndex + 3

\* an earlier streamed reset has left its counters behind, and a new one
\* starts
C9_Witness ==
    /\ resetStreamState = "None"
    /\ resetStreamSize > 0
    /\ resetStreamMessageCount > 0
    /\ startStreamedReset(Self, 1, 1, <<>>, "Ok").ret = "Ok"
    /\ startStreamedReset(Self, 1, 1, <<>>, "Ok").resetStreamState = "Streaming"

\* the results a streamed-reset step reports a failure with
IsError(ret) == ret \notin {"Ok", "true"}

\* C10: whenever a streamed-reset step returns an error result, the
\* streamed-reset state afterwards is the one before the call or None.
C10_ErrorKeepsOrClears ==
    LET Safe(o) ==
            IsError(o.ret) => o.resetStreamState \in {resetStreamState, "None"}
    IN /\ \A ctxId \in Ctx, correlator \in Correlators, seed \in SeedLists,
             openResult \in OpenResults :
              Safe(startStreamedReset(Self, ctxId, correlator, seed,
                                      openResult))
       /\ \A ctxId \in Ctx, msg \in StreamMsgs :
              \A env \in PushEnvs(msg) :
                  Safe(addStreamResetMessage(Self, ctxId, msg, env))
       /\ \A ctxId \in Ctx, expectedMessageCount \in ExpectedCounts :
              \A env \in PrepareEnvs :
                  Safe(prepareStreamedReset(Self, ctxId, expectedMessageCount,
                                            env))
       /\ \A ok \in BOOLEAN, includeTail \in BOOLEAN :
              Safe(resolveStreamedReset(Self, ok, includeTail))
       /\ \A ctxId \in {-1} \cup Ctx : Safe(abortStreamedReset(Self, ctxId))

\* a stream under way on which the prepareResetStream hook fails, the
\* announced count is wrong, and a stranger's abort is turned away
C10_Witness ==
    /\ resetStreamState = "Streaming"
    /\ resetStreamCtxId = 1
    /\ resetStreamMessageCount = 1
    /\ LET failed == prepareStreamedReset(
                         Self, 1, 1,
                         PrepareEnv(<<>>, TRUE, 0, "Ok", "Ok", "OutOfSpace"))
           miscounted == prepareStreamedReset(Self, 1, 2, QuietPrepare(<<>>))
           stranger == abortStreamedReset(Self, 2)
       IN /\ failed.ret = "OutOfSpace"
          /\ failed.resetStreamState = "None"
          /\ miscounted.ret = "InvalidMessageCount"
          /\ miscounted.resetStreamState = "None"
          /\ stranger.ret = "InvalidUser"
          /\ stranger.resetStreamState = "Streaming"

\* the call left the live indices alone
SameIndices(o) == o.firstIndex = firstIndex /\ o.lastIndex = lastIndex

\* the steps of the streamed-reset protocol after the start, up to a failing
\* resolve, leave firstIndex and lastIndex alone
LaterStepsKeepIndices ==
    /\ \A ctxId \in Ctx, msg \in StreamMsgs :
           \A env \in PushEnvs(msg) :
               SameIndices(addStreamResetMessage(Self, ctxId, msg, env))
    /\ \A ctxId \in Ctx, expectedMessageCount \in ExpectedCounts :
           \A env \in PrepareEnvs :
               SameIndices(prepareStreamedReset(Self, ctxId,
                                                expectedMessageCount, env))
    /\ \A ctxId \in {-1} \cup Ctx : SameIndices(abortStreamedReset(Self, ctxId))
    /\ SameIndices(resolveStreamedReset(Self, FALSE, FALSE))

\* C11 as stated: no call of startStreamedReset, addStreamResetMessage,
\* prepareStreamedReset, abortStreamedReset or a failing resolveStreamedReset
\* changes firstIndex or lastIndex.
C11_NoStepMovesIndices ==
    /\ \A ctxId \in Ctx, correlator \in Correlators, seed \in SeedLists,
          openResult \in OpenResults :
           SameIndices(startStreamedReset(Self, ctxId, correlator, seed,
                                          openResult))
    /\ LaterStepsKeepIndices

\* C11: firstIndex is not changed by any step of the streamed-reset protocol
\* short of a successful resolveStreamedReset, and lastIndex is changed only
\* by startStreamedReset, which appends its two markers to the live log
\* whenever it is not turned away with AlreadyActive or OutOfSpace, whatever
\* openResetStream answers, WriteError included.
C11_IndicesUntilResolve ==
    /\ \A ctxId \in Ctx, correlator \in Correlators, seed \in SeedLists,
          openResult \in OpenResults :
           LET o == startStreamedReset(Self, ctxId, correlator, seed,
                                       openResult)
           IN /\ o.firstIndex = firstIndex
              /\ o.lastIndex = IF o.ret \in {"AlreadyActive", "OutOfSpace"}
                               THEN lastIndex ELSE lastIndex + 2
    /\ LaterStepsKeepIndices

\* a stream is under way on a log that holds messages, and a start whose
\* openResetStream fails would still have appended its markers
C11_Witness ==
    /\ resetStreamState = "Streaming"
    /\ lastIndex > resetStreamStartIndex
    /\ abortStreamedReset(Self, -1).ret = "Ok"
    /\ LET o == startStreamedReset(abortStreamedReset(Self, -1), 1, 1, <<>>,
                                   "WriteError")
       IN o.ret = "WriteError" /\ o.lastIndex = lastIndex + 2

\* the call invoked discardResetStream, and the backend holds no pending log
Discarded(o) ==
    Times(o.hooks, "discardResetStream") >= 1 /\ o.pending = NoPending

\* C12: when a step of an active streamed reset fails (addStreamResetMessage
\* with an error of the consumer, prepareStreamedReset with OutOfSpace,
\* ConsumerError, InvalidMessageCount or a failing prepareResetStream,
\* resolveStreamedReset with false), discardResetStream has been invoked
\* when the step returns.
C12_FailureDiscards ==
    /\ \A ctxId \in Ctx, msg \in StreamMsgs :
           \A env \in PushEnvs(msg) :
               LET o == addStreamResetMessage(Self, ctxId, msg, env)
               IN o.ret \in {"ConsumerError", "OutOfSpace", "DisallowedType"}
                      => Discarded(o)
    /\ \A ctxId \in Ctx, expectedMessageCount \in ExpectedCounts :
           \A env \in PrepareEnvs :
               LET o == prepareStreamedReset(Self, ctxId,
                                             expectedMessageCount, env)
               IN o.ret \notin {"Ok", "NotActive", "InvalidUser"}
                      => Discarded(o)
    /\ resetStreamState = "Prepared" =>
           Discarded(resolveStreamedReset(Self, FALSE, FALSE))

\* the call moved the streamed-reset state from one state to the other
Moves(o, from, to) == resetStreamState = from /\ o.resetStreamState = to
\* the call left the streamed-reset state alone
Stays(o) == o.resetStreamState = resetStreamState

\* C13: the streamed-reset state changes only from None to Streaming by a
\* successful startStreamedReset, from Streaming to Prepared by a successful
\* prepareStreamedReset, from Streaming to None by an abort or an error, and
\* from Prepared to None by resolveStreamedReset; nothing else changes it.
C13_Transitions ==
    /\ \A ctxId \in Ctx, correlator \in Correlators, seed \in SeedLists,
          openResult \in OpenResults :
           LET o == startStreamedReset(Self, ctxId, correlator, seed,
                                       openResult)
           IN Stays(o) \/ (o.ret = "Ok" /\ Moves(o, "None", "Streaming"))
    /\ \A ctxId \in Ctx, msg \in StreamMsgs :
           \A env \in PushEnvs(msg) :
               LET o == addStreamResetMessage(Self, ctxId, msg, env)
               IN Stays(o) \/ (IsError(o.ret) /\ Moves(o, "Streaming", "None"))
    /\ \A ctxId \in Ctx, expectedMessageCount \in ExpectedCounts :
           \A env \in PrepareEnvs :
               LET o == prepareStreamedReset(Self, ctxId,
                                             expectedMessageCount, env)
               IN \/ Stays(o)
                  \/ o.ret = "Ok" /\ Moves(o, "Streaming", "Prepared")
                  \/ IsError(o.ret) /\ Moves(o, "Streaming", "None")
    /\ \A ctxId \in {-1} \cup Ctx :
           LET o == abortStreamedReset(Self, ctxId)
           IN Stays(o) \/ (o.ret = "Ok" /\ Moves(o, "Streaming", "None"))
    /\ \A ok \in BOOLEAN, includeTail \in BOOLEAN :
           LET o == resolveStreamedReset(Self, ok, includeTail)
           IN Stays(o) \/ Moves(o, "Prepared", "None")
    /\ \A L \in Histories :
           LET o == reset(Self, L)
           IN Stays(o) \/ (o.ret = "true" /\ Moves(o, "Streaming", "None"))
    /\ \A msg \in LiveMsgs :
           Stays(addMessage(Self, msg)) /\ Stays(addEmergencyMessage(Self, msg))

\* a prepared streamed reset: an abort and an atomic reset leave it
\* prepared, a start is turned away, a resolve ends it
C13_Witness ==
    /\ resetStreamState = "Prepared"
    /\ abortStreamedReset(Self, -1).resetStreamState = "Prepared"
    /\ reset(Self, <<>>).ret = "true"
    /\ reset(Self, <<>>).resetStreamState = "Prepared"
    /\ resolveStreamedReset(Self, TRUE, FALSE).resetStreamState = "None"
    /\ resolveStreamedReset(Self, FALSE, FALSE).resetStreamState = "None"

\* C14: while Streaming, addStreamResetMessage and prepareStreamedReset by a
\* context other than the one that started the streamed reset return
\* InvalidUser and change nothing; when the state is not Streaming both
\* return NotActive and change nothing; addStreamResetMessage by the starter
\* with a message that is no ResetStream returns BadType and changes
\* nothing.  The checks come in the order NotActive, InvalidUser, BadType.
C14_OnlyTheStarter ==
    /\ \A ctxId \in Ctx, msg \in StreamMsgs :
           \A env \in PushEnvs(msg) :
               LET o == addStreamResetMessage(Self, ctxId, msg, env)
               IN IF resetStreamState # "Streaming"
                  THEN Untouched(o, "NotActive")
                  ELSE IF ctxId # resetStreamCtxId
                  THEN Untouched(o, "InvalidUser")
                  ELSE IF msg.type # "resetstream"
                  THEN Untouched(o, "BadType")
                  ELSE o.ret \notin {"NotActive", "InvalidUser", "BadType"}
    /\ \A ctxId \in Ctx, expectedMessageCount \in ExpectedCounts :
           \A env \in PrepareEnvs :
               LET o == prepareStreamedReset(Self, ctxId,
                                             expectedMessageCount, env)
               IN IF resetStreamState # "Streaming"
                  THEN Untouched(o, "NotActive")
                  ELSE IF ctxId # resetStreamCtxId
                  THEN Untouched(o, "InvalidUser")
                  ELSE o.ret \notin {"NotActive", "InvalidUser"}

\* context 1 streams; context 2 is turned away whatever it sends, and
\* context 1 is when it sends something else than a ResetStream
C14_Witness ==
    /\ resetStreamState = "Streaming"
    /\ resetStreamCtxId = 1
    /\ resetStreamMessageCount = 1
    /\ addStreamResetMessage(Self, 2, [type |-> "other", payload |-> <<>>],
                             QuietPush(0)).ret = "InvalidUser"
    /\ prepareStreamedReset(Self, 2, 1, QuietPrepare(<<>>)).ret = "InvalidUser"
    /\ addStreamResetMessage(Self, 1, [type |-> "other", payload |-> <<>>],
                             QuietPush(0)).ret = "BadType"
    /\ prepareStreamedReset(Self, 1, 1, QuietPrepare(<<>>)).ret = "Ok"

\* the session once the consumer has been drained by a prepare, with ret
\* telling whether it drained without error
Drained(env) ==
    DP_reset_stream_consumer_free_finish(
        [Self EXCEPT !.resetStreamAddError = "ConsumerError"], env)

\* C15: prepareStreamedReset by the starter, once the consumer has drained
\* without error, returns InvalidMessageCount exactly when the number of
\* accepted messages differs from the announced one or the announced one is
\* 0, and then the state is None and the pending log is discarded.
C15_InvalidMessageCount ==
    resetStreamState = "Streaming" =>
        \A expectedMessageCount \in ExpectedCounts :
            \A env \in PrepareEnvs :
                LET o == prepareStreamedReset(Self, resetStreamCtxId,
                                              expectedMessageCount, env)
                    accepted == Drained(env).resetStreamMessageCount
                IN Drained(env).ret = "true" =>
                       IF accepted # expectedMessageCount
                          \/ expectedMessageCount = 0
                       THEN /\ o.ret = "InvalidMessageCount"
                            /\ o.resetStreamState = "None"
                            /\ Discarded(o)
                       ELSE o.ret # "InvalidMessageCount"

\* one message streamed and two announced; and nothing streamed, nothing
\* announced
C15_Witness ==
    /\ resetStreamState = "Streaming"
    /\ resetStreamMessageCount = 1
    /\ pending.msgs # <<>>
    /\ LET miscounted == prepareStreamedReset(Self, resetStreamCtxId, 2,
                                              QuietPrepare(<<>>))
       IN /\ miscounted.ret = "InvalidMessageCount"
          /\ miscounted.resetStreamState = "None"
          /\ miscounted.pending = NoPending
          /\ prepareStreamedReset(Self, resetStreamCtxId, 0,
                                  QuietPrepare(<<>>)).ret
                 = "InvalidMessageCount"

\* the call left firstIndex, lastIndex, sizeInBytes and the live log alone
SameLive(o) ==
    /\ SameIndices(o)
    /\ o.sizeInBytes = sizeInBytes
    /\ o.log = log

\* what a prepare by the starter that gets past the count check does, when
\* the backend takes the CaughtUp marker
Sealed(o, env) ==
    /\ o.pending.msgs = Append(Drained(env).pending.msgs, makeCaughtUp(0))
    /\ Times(o.hooks, "prepareResetStream") = 1
    /\ o.ret = env.prepareResult
    /\ o.resetStreamState =
           IF env.prepareResult = "Ok" THEN "Prepared" ELSE "None"
    /\ SameLive(o)

\* C16 as stated: prepareStreamedReset by the starter with n >= 1 equal to
\* the number of accepted messages appends one CaughtUp marker to the
\* pending log and calls prepareResetStream; the state is Prepared when the
\* hook answers Ok and None otherwise, the hook's answer is returned and the
\* live log is unchanged.
C16_PrepareSeals ==
    resetStreamState = "Streaming" =>
        \A n \in ExpectedCounts \ {0} :
            \A env \in PrepareEnvs :
                (Drained(env).ret = "true"
                 /\ Drained(env).resetStreamMessageCount = n) =>
                    Sealed(prepareStreamedReset(Self, resetStreamCtxId, n,
                                                env), env)

\* C16: such a prepare first hands one CaughtUp marker to the backend.  When
\* the backend takes it, the marker is the one message added to the pending
\* log, prepareResetStream is called, its answer is returned and the state
\* is Prepared on Ok and None otherwise.  When the backend refuses it, the
\* call returns OutOfSpace or ConsumerError, prepareResetStream is not
\* called and the state stays Streaming.  The live log is unchanged in both
\* cases.
C16_PrepareSealsOrFails ==
    resetStreamState = "Streaming" =>
        \A n \in ExpectedCounts \ {0} :
            \A env \in PrepareEnvs :
                LET o == prepareStreamedReset(Self, resetStreamCtxId, n, env)
                IN (Drained(env).ret = "true"
                    /\ Drained(env).resetStreamMessageCount = n) =>
                       IF env.caughtUpResult = "Ok"
                       THEN Sealed(o, env)
                       ELSE /\ o.ret = IF env.caughtUpResult = "OutOfSpace"
                                       THEN "OutOfSpace" ELSE "ConsumerError"
                            /\ Times(o.hooks, "prepareResetStream") = 0
                            /\ o.pending = Drained(env).pending
                            /\ o.resetStreamState = "Streaming"
                            /\ SameLive(o)

\* one message accepted and announced: the prepare seals the stream, or
\* ends it when prepareResetStream fails, or leaves it open when the
\* backend refuses the marker
C16_Witness ==
    /\ resetStreamState = "Streaming"
    /\ resetStreamMessageCount = 1
    /\ log # <<>>
    /\ LET Prep(u, p) ==
               prepareStreamedReset(Self, resetStreamCtxId, 1,
                                    PrepareEnv(<<>>, TRUE, 0, "Ok", u, p))
       IN /\ Prep("Ok", "Ok").resetStreamState = "Prepared"
          /\ Len(Prep("Ok", "Ok").pending.msgs) = Len(pending.msgs) + 1
          /\ Prep("Ok", "OutOfSpace").resetStreamState = "None"
          /\ Prep("OutOfSpace", "Ok").resetStreamState = "Streaming"

\* C17: resolveStreamedReset succeeds only from state Prepared; with the
\* backend reporting (messageCount, size) it sets sizeInBytes to size,
\* firstIndex to the old lastIndex + 1, lastIndex to the old lastIndex +
\* messageCount, autoResetBaseSize to resetStreamSize, outOffset to
\* messageCount and the state to None.  After an empty seed, n accepted
\* messages of total length S and a successful prepare, a backend that
\* reports the pending log gives outOffset n + 1 and sizeInBytes S + the
\* length of the CaughtUp marker.
C17_Resolve ==
    \A ok \in BOOLEAN, includeTail \in BOOLEAN :
        LET o == resolveStreamedReset(Self, ok, includeTail)
            b == resolveResetStream(Self, includeTail)
            n == resetStreamMessageCount
        IN /\ resetStreamState # "Prepared" => Untouched(o, "false")
           /\ o.ret = "true" <=> (resetStreamState = "Prepared" /\ ok)
           /\ o.ret = "true" =>
                  /\ o.sizeInBytes = b.sizeInBytes
                  /\ o.firstIndex = lastIndex + 1
                  /\ o.lastIndex = lastIndex + b.messageCount
                  /\ o.autoResetBaseSize = resetStreamSize
                  /\ outOffset(Self, ok, includeTail) = b.messageCount
                  /\ o.resetStreamState = "None"
           /\ (o.ret = "true" /\ ~includeTail
               /\ Len(pending.msgs) = n + 1) =>
                  /\ outOffset(Self, ok, includeTail) = n + 1
                  /\ o.lastIndex - o.firstIndex + 1 = n + 1
                  /\ pending.msgs[n + 1] = makeCaughtUp(0)
                  /\ o.sizeInBytes = SumLen(SubSeq(pending.msgs, 1, n))
                                     + makeCaughtUp(0).len

\* an empty seed, one message of length 6 accepted, the stream prepared,
\* on a live log that holds the two markers: resolving gives outOffset 2
\* and sizeInBytes 7
C17_Witness ==
    /\ resetStreamState = "Prepared"
    /\ resetStreamMessageCount = 1
    /\ resetStreamSize = 6
    /\ Len(pending.msgs) = 2
    /\ lastIndex = 1
    /\ LET o == resolveStreamedReset(Self, TRUE, FALSE)
       IN /\ o.ret = "true"
          /\ outOffset(Self, TRUE, FALSE) = 2
          /\ o.firstIndex = 2
          /\ o.lastIndex = 3
          /\ o.sizeInBytes = 7
          /\ o.autoResetBaseSize = 6

\* what an abort that goes through leaves: the pending log discarded, the
\* consumer freed, the state None, the result Ok
Aborted(o) ==
    /\ o.ret = "Ok"
    /\ Discarded(o)
    /\ o.resetStreamConsumer = NoConsumer
    /\ o.resetStreamState = "None"
    /\ SameLive(o)

\* C18: abortStreamedReset while the state is not None, with
\* ctxId -1 or the starter's, discards the pending log, frees the consumer,
\* sets the state to None and returns Ok; with another non-negative ctxId it
\* returns InvalidUser and changes nothing; with no streamed reset active it
\* returns NotActive and changes nothing.
C18_AbortWhileActive ==
    \A ctxId \in {-1} \cup Ctx :
        LET o == abortStreamedReset(Self, ctxId)
        IN IF resetStreamState = "None"
           THEN Untouched(o, "NotActive")
           ELSE IF ctxId = -1 \/ ctxId = resetStreamCtxId
           THEN Aborted(o)
           ELSE Untouched(o, "InvalidUser")

\* the session with the same live log and no streamed reset, as it is after
\* construction
WithoutStream(c) ==
    [c EXCEPT !.resetStreamState = "None",
              !.resetStreamCtxId = 0,
              !.resetStreamSize = 0,
              !.resetStreamStartIndex = 0,
              !.resetStreamMessageCount = 0,
              !.resetStreamConsumer = NoConsumer,
              !.resetStreamAddError = "Ok",
              !.pending = NoPending]

\* the append did to the live log what it does with no streamed reset, and
\* left the streamed reset alone
AppendsAlike(active, idle) ==
    /\ active.ret = idle.ret
    /\ active.sizeInBytes = idle.sizeInBytes
    /\ active.lastIndex = idle.lastIndex
    /\ active.log = idle.log
    /\ active.firstIndex = firstIndex
    /\ active.emitted = idle.emitted
    /\ WithoutStream(active) = idle

\* C19: while a streamed reset is Streaming or Prepared, addMessage and
\* addEmergencyMessage return what they return, and do to sizeInBytes and
\* lastIndex what they do, with no streamed reset active; and neither they
\* nor addStreamResetMessage nor prepareStreamedReset move firstIndex or
\* touch the live log.
C19_AppendsUnaffected ==
    resetStreamState \in {"Streaming", "Prepared"} =>
        /\ \A msg \in LiveMsgs :
               /\ AppendsAlike(addMessage(Self, msg),
                               addMessage(WithoutStream(Self), msg))
               /\ AppendsAlike(addEmergencyMessage(Self, msg),
                               addEmergencyMessage(WithoutStream(Self), msg))
        /\ \A ctxId \in Ctx, msg \in StreamMsgs :
               \A env \in PushEnvs(msg) :
                   SameLive(addStreamResetMessage(Self, ctxId, msg, env))
        /\ \A ctxId \in Ctx, expectedMessageCount \in ExpectedCounts :
               \A env \in PrepareEnvs :
                   SameLive(prepareStreamedReset(Self, ctxId,
                                                 expectedMessageCount, env))

\* limit 10, the two markers in the live log, 6 bytes streamed: a message
\* of 6 is admitted, though live and streamed bytes together pass the limit
C19_Witness ==
    /\ resetStreamState = "Streaming"
    /\ currentSizeLimit(Self) = 10
    /\ sizeInBytes = 3
    /\ resetStreamSize = 6
    /\ addMessage(Self, Msg("cmd", 6, 2)).ret = "true"
    /\ addMessage(Self, Msg("cmd", 6, 2)).sizeInBytes = 9
    /\ addMessage(Self, Msg("cmd", 6, 2)).resetStreamSize = 6

\* the invite store on its own
NextInvites ==
    \/ CreateInvite
    \/ RemoveInvite
    \/ RemoveOldestInvite
    \/ CheckInvite

SpecInvites == Init /\ [][NextInvites]_vars

\* C20: every stored invite has at most maxUses uses and a maxUses from 1 to
\* MAX_INVITE_USES, the stored invites have pairwise distinct secrets, and
\* there are at most MAX_INVITES of them.
C20_InviteStore ==
    /\ \A s \in DOMAIN invites :
           /\ Cardinality(DOMAIN invites[s].uses) <= invites[s].maxUses
           /\ 1 <= invites[s].maxUses
           /\ invites[s].maxUses <= MAX_INVITE_USES
    /\ \A s \in DOMAIN invites, t \in DOMAIN invites :
           invites[s].secret = invites[t].secret => s = t
    /\ Cardinality(DOMAIN invites) <= MAX_INVITES

\* the store is full, one invite is used up, and asking for more uses than
\* allowed or for none is clamped
C20_Witness ==
    /\ Cardinality(DOMAIN invites) = MAX_INVITES
    /\ \E s \in DOMAIN invites :
           /\ invites[s].maxUses = MAX_INVITE_USES
           /\ Cardinality(DOMAIN invites[s].uses) = MAX_INVITE_USES
    /\ \E s \in DOMAIN invites : invites[s].maxUses = 1
    /\ createInvite(Self, "alice", 3, TRUE, FALSE, 1, <<"s1", "s2">>).ret
           = "null"
    /\ LET c == removeInvite(Self, "s1")
           o == createInvite(c, "alice", 3, TRUE, FALSE, 1, <<"s2", "s1">>)
       IN o.ret = "s1" /\ o.invites["s1"].maxUses = MAX_INVITE_USES

\* C21: createInvite returns null exactly when MAX_INVITES invites or more
\* are stored, and then stores nothing; otherwise it adds exactly one invite
\* under a secret that was not in the store, with no uses and the creator,
\* trust and op given, and leaves the other invites alone; after a
\* removeInvite of a stored invite a createInvite succeeds.
C21_CreateInvite ==
    /\ \A createdBy \in Creators, maxUses \in RequestedUses,
          flags \in InviteFlags, at \in InviteTimes, ids \in IdRuns :
           LET o == createInvite(Self, createdBy, maxUses, flags[1], flags[2],
                                 at, ids)
           IN /\ o.ret = "null" <=> Cardinality(DOMAIN invites) >= MAX_INVITES
              /\ o.ret = "null" => o.invites = invites
              /\ o.ret # "null" =>
                     /\ o.ret \notin DOMAIN invites
                     /\ DOMAIN o.invites = DOMAIN invites \cup {o.ret}
                     /\ \A s \in DOMAIN invites : o.invites[s] = invites[s]
                     /\ o.invites[o.ret].secret = o.ret
                     /\ o.invites[o.ret].uses = EmptyHash
                     /\ o.invites[o.ret].creator = createdBy
                     /\ o.invites[o.ret].trust = flags[1]
                     /\ o.invites[o.ret].op = flags[2]
    /\ \A secret \in DOMAIN invites :
           LET c == removeInvite(Self, secret)
           IN /\ c.ret = "true"
              /\ \A createdBy \in Creators, maxUses \in RequestedUses,
                    flags \in InviteFlags, at \in InviteTimes, ids \in IdRuns :
                     createInvite(c, createdBy, maxUses, flags[1], flags[2],
                                  at, ids).ret # "null"

\* one used invite s1 is stored: the generator's s1 is passed over and s2 is
\* created next to it; the store is then full, and removing s1 makes room
C21_Witness ==
    /\ DOMAIN invites = {"s1"}
    /\ invites["s1"].uses # EmptyHash
    /\ LET o == createInvite(Self, "alice", 2, FALSE, TRUE, 2, <<"s1", "s2">>)
           full == createInvite(o, "alice", 2, FALSE, TRUE, 2, <<"s1", "s2">>)
           again == createInvite(removeInvite(o, "s1"), "alice", 1, TRUE,
                                 FALSE, 2, <<"s2", "s1">>)
       IN /\ o.ret = "s2"
          /\ o.invites["s1"] = invites["s1"]
          /\ o.invites["s2"].op
          /\ full.ret = "null"
          /\ again.ret = "s1"
          /\ again.invites["s1"].uses = EmptyHash

\* the clients that present a key
KeyedClients == {client \in Clients : client.sid # ""}

\* C22: a client whose key is not recorded on an invite with uses left gets
\* InviteUsed for use = true, which adds one use, and AlreadyInvited with an
\* unchanged store when it presents the secret again under the same name,
\* also after a call of another client in between; a key recorded under a
\* name gets AlreadyInvited for that name in every state, and no call of a
\* client with another key touches its use.
C22_UseIsIdempotent ==
    \A s \in DOMAIN invites, client \in KeyedClients :
        LET k == client.sid
            uses == invites[s].uses
            first == checkInvite(Self, client, s, TRUE)
            second == checkInvite(first, client, s, TRUE)
        IN /\ (k \notin DOMAIN uses /\ hasUsesRemaining(invites[s])) =>
                  /\ first.ret = "InviteUsed"
                  /\ DOMAIN first.invites[s].uses = DOMAIN uses \cup {k}
                  /\ second.ret = "AlreadyInvited"
                  /\ second.invites = first.invites
                  /\ \A other \in Clients \ {client},
                        secret \in Secrets \cup {""}, use \in BOOLEAN :
                         other.sid # k =>
                             LET between == checkInvite(first, other, secret,
                                                        use)
                                 later == checkInvite(between, client, s, TRUE)
                             IN /\ later.ret = "AlreadyInvited"
                                /\ later.invites = between.invites
           /\ (k \in DOMAIN uses /\ uses[k].name = client.username) =>
                  /\ first.ret = "AlreadyInvited"
                  /\ first.invites = invites
                  /\ \A other \in Clients \ {client},
                        secret \in Secrets \cup {""}, use \in BOOLEAN :
                         other.sid # k =>
                             LET between == checkInvite(Self, other, secret,
                                                        use)
                             IN /\ k \in DOMAIN between.invites[s].uses
                                /\ between.invites[s].uses[k] = uses[k]

\* bob has used s1 with key k1, one use is left: bob is told AlreadyInvited,
\* carol takes the last use with key k2, and bob is still AlreadyInvited
C22_Witness ==
    /\ "s1" \in DOMAIN invites
    /\ invites["s1"].maxUses = 2
    /\ invites["s1"].uses = [k \in {"k1"} |-> [name |-> "bob"]]
    /\ LET bob == [sid |-> "k1", username |-> "bob"]
           carol == [sid |-> "k2", username |-> "carol"]
           again == checkInvite(Self, bob, "s1", TRUE)
           between == checkInvite(Self, carol, "s1", TRUE)
           later == checkInvite(between, bob, "s1", TRUE)
       IN /\ again.ret = "AlreadyInvited"
          /\ again.invites = invites
          /\ between.ret = "InviteUsed"
          /\ later.ret = "AlreadyInvited"
          /\ DOMAIN later.invites["s1"].uses = {"k1", "k2"}

C24_ProbeIsDryRun ==
    \A client \in Clients, secret \in Secrets \cup {""} :
        LET probe == checkInvite(Self, client, secret, FALSE)
            used == checkInvite(Self, client, secret, TRUE)
        IN /\ Untouched(probe, probe.ret)
           /\ probe.ret = "InviteOk" <=> used.ret = "InviteUsed"

\* bob has used s1 with key k1 and one use is left: the probe of k2 answers
\* InviteOk where the use answers InviteUsed, and the probe of k1 under the
\* name carol leaves the name bob
C24_Witness ==
    /\ "s1" \in DOMAIN invites
    /\ invites["s1"].maxUses = 2
    /\ invites["s1"].uses = [k \in {"k1"} |-> [name |-> "bob"]]
    /\ LET fresh == [sid |-> "k2", username |-> "carol"]
           renamed == [sid |-> "k1", username |-> "carol"]
       IN /\ Untouched(checkInvite(Self, fresh, "s1", FALSE), "InviteOk")
          /\ checkInvite(Self, fresh, "s1", TRUE).ret = "InviteUsed"
          /\ checkInvite(Self, fresh, "s1", TRUE).invites # invites
          /\ Untouched(checkInvite(Self, renamed, "s1", FALSE),
                       "AlreadyInvited")
          /\ checkInvite(Self, renamed, "s1", TRUE).invites # invites

\* the keyed clients whose key is recorded on invite s under another name
Renamed(s) ==
    {client \in KeyedClients :
        /\ client.sid \in DOMAIN invites[s].uses
        /\ invites[s].uses[client.sid].name # client.username}

\* C25 as stated: a recorded key presented under another name has its
\* stored name updated and gets AlreadyInvitedNameChanged, whatever use is.
C25_RenameOnAnyCall ==
    \A s \in DOMAIN invites : \A client \in Renamed(s), use \in BOOLEAN :
        LET o == checkInvite(Self, client, s, use)
        IN /\ o.ret = "AlreadyInvitedNameChanged"
           /\ o.invites[s].uses[client.sid].name = client.username

\* C25: a recorded key presented under another name with use = true has its
\* stored name set to the new name and gets AlreadyInvitedNameChanged, the
\* recorded keys and everything else in the store staying as they are, and
\* presenting the new name again gets AlreadyInvited; with use = false the
\* answer is AlreadyInvited and the stored name stays.
C25_RenameOnUse ==
    \A s \in DOMAIN invites : \A client \in Renamed(s) :
        LET k == client.sid
            o == checkInvite(Self, client, s, TRUE)
        IN /\ o.ret = "AlreadyInvitedNameChanged"
           /\ o.invites[s].uses[k].name = client.username
           /\ DOMAIN o.invites[s].uses = DOMAIN invites[s].uses
           /\ o.invites = [invites EXCEPT ![s].uses[k].name = client.username]
           /\ checkInvite(o, client, s, TRUE).ret = "AlreadyInvited"
           /\ checkInvite(o, client, s, TRUE).invites = o.invites
           /\ Untouched(checkInvite(Self, client, s, FALSE), "AlreadyInvited")

\* k1 is recorded on s1 as bob, next to k2: presented as carol it is
\* renamed, and carol is then known
C25_Witness ==
    /\ "s1" \in DOMAIN invites
    /\ DOMAIN invites["s1"].uses = {"k1", "k2"}
    /\ invites["s1"].uses["k1"].name = "bob"
    /\ LET client == [sid |-> "k1", username |-> "carol"]
           o == checkInvite(Self, client, "s1", TRUE)
       IN /\ o.ret = "AlreadyInvitedNameChanged"
          /\ o.invites["s1"].uses["k1"].name = "carol"
          /\ o.invites["s1"].uses["k2"] = invites["s1"].uses["k2"]
          /\ checkInvite(o, client, "s1", TRUE).ret = "AlreadyInvited"

\* the thumbnail handshake on its own, under a running clock
NextThumbnails ==
    \/ Tick
    \/ StartThumbnailGeneration
    \/ FinishThumbnailGeneration
    \/ CancelThumbnailGeneration
    \/ PurgeThumbnail

SpecThumbnails == Init /\ [][NextThumbnails]_vars

\* the counter component of a correlator: the characters before the colon
RECURSIVE CounterOf(_)
CounterOf(correlator) ==
    IF correlator = <<>> \/ Head(correlator) = ":" THEN <<>>
    ELSE <<Head(correlator)>> \o CounterOf(Tail(correlator))

\* C26: startThumbnailGeneration answers InvalidUser for context 0 and
\* AlreadyGenerating for the context that has a generation assigned, and
\* changes nothing then; otherwise it answers Ok, stores the context and the
\* correlator and hands that correlator back. The counter component handed
\* back is the counter's value, the counter is higher afterwards, the
\* component differs from the pending correlator's and from that of the
\* next successful start, and no other call of the handshake moves the
\* counter: no two successful starts hand back the same component.
C26_StartThumbnail ==
    /\ \A contextId \in ThumbnailCtx :
           LET o == startThumbnailGeneration(Self, contextId)
           IN IF contextId = 0 THEN Untouched(o, "InvalidUser")
              ELSE IF contextId = thumbnailCtxId
              THEN Untouched(o, "AlreadyGenerating")
              ELSE /\ o.ret = "Ok"
                   /\ o.thumbnailCtxId = contextId
                   /\ o.thumbnailCorrelator = o.out
                   /\ o = [Self EXCEPT !.ret = "Ok", !.out = o.out,
                                       !.thumbnailCtxId = contextId,
                                       !.thumbnailCorrelator = o.out,
                                       !.correlatorIndex = o.correlatorIndex]
                   /\ CounterOf(o.out) = number16(correlatorIndex)
                   /\ o.correlatorIndex > correlatorIndex
                   /\ CounterOf(o.out) # CounterOf(thumbnailCorrelator)
                   /\ \A next \in ThumbnailCtx :
                          LET p == startThumbnailGeneration(o, next)
                          IN p.ret = "Ok" => CounterOf(p.out) # CounterOf(o.out)
    /\ \A index \in 0..MaxStarts :
           index < correlatorIndex =>
               number16(index) # number16(correlatorIndex)
    /\ thumbnailCorrelator # <<>> =>
           \E index \in 0..MaxStarts :
               /\ index < correlatorIndex
               /\ CounterOf(thumbnailCorrelator) = number16(index)
    /\ \A contextId \in ThumbnailCtx, ok \in BOOLEAN :
           /\ purgeThumbnail(Self, ok).correlatorIndex = correlatorIndex
           /\ \A data \in ThumbnailData :
                  finishThumbnailGeneration(Self, contextId, data, ok)
                      .correlatorIndex = correlatorIndex
           /\ \A correlator \in Correlators16 \cup {<<>>} :
                  cancelThumbnailGeneration(Self, contextId, correlator)
                      .correlatorIndex = correlatorIndex

\* context 1 holds the second generation started: context 2 is given the
\* third counter value, context 1 is told AlreadyGenerating, context 0
\* InvalidUser
C26_Witness ==
    /\ thumbnailCtxId = 1
    /\ correlatorIndex = 2
    /\ CounterOf(thumbnailCorrelator) = <<"1">>
    /\ LET o == startThumbnailGeneration(Self, 2)
       IN /\ o.ret = "Ok"
          /\ o.out = makeCorrelator(2, now)
          /\ o.thumbnailCtxId = 2
          /\ o.thumbnailCorrelator = o.out
          /\ CounterOf(o.out) = <<"2">>
    /\ Untouched(startThumbnailGeneration(Self, 1), "AlreadyGenerating")
    /\ Untouched(startThumbnailGeneration(Self, 0), "InvalidUser")

\* data d is k followed by some bytes, or by none
Extends(d, k) == \E n \in 0..Len(d) : SubSeq(d, 1, n) = k

\* session p has a generation pending for context c with correlator k
Handshake(p, c, k) ==
    /\ \A c2 \in ThumbnailCtx \ {c}, d \in ThumbnailData, ok \in BOOLEAN :
           finishThumbnailGeneration(p, c2, d, ok) = Return(p, "InvalidUser")
    /\ \A d \in ThumbnailData, ok \in BOOLEAN :
           ~Extends(d, k) =>
               finishThumbnailGeneration(p, c, d, ok)
                   = Return(p, "InvalidCorrelator")
    /\ \A bytes \in ImageBytes, ok \in BOOLEAN :
           LET o == finishThumbnailGeneration(p, c, k \o bytes, ok)
           IN /\ o.thumbnailCtxId = 0
              /\ o.thumbnailCorrelator = <<>>
              /\ o.ret = IF bytes = <<>> THEN "NoData"
                         ELSE IF ~ok THEN "WriteError" ELSE "Ok"
              /\ o.thumbnail = IF o.ret = "Ok" THEN bytes ELSE p.thumbnail
              /\ o.hooks = IF bytes = <<>> THEN <<>> ELSE <<"setThumbnail">>
              /\ \A d \in ThumbnailData, again \in BOOLEAN :
                     finishThumbnailGeneration(o, c, d, again)
                         = Return(o, "InvalidUser")

\* C27: once startThumbnailGeneration(c) has answered Ok with correlator k,
\* and for as long as that generation is pending, a finish by another
\* context answers InvalidUser and a finish by c with data that does not
\* start with k answers InvalidCorrelator, both changing nothing; a finish
\* by c with k followed by bytes clears the pending generation and answers
\* NoData for no bytes, WriteError when setThumbnail fails and Ok otherwise,
\* and the next finish by c answers InvalidUser.
C27_FinishThumbnail ==
    /\ \A c \in ThumbnailCtx :
           LET started == startThumbnailGeneration(Self, c)
           IN started.ret = "Ok" =>
                  Handshake([started EXCEPT !.ret = "none", !.out = "none"],
                            c, started.out)
    /\ thumbnailCtxId # 0 =>
           Handshake(Self, thumbnailCtxId, thumbnailCorrelator)

\* context 1 holds a generation and a thumbnail p is stored: the right
\* correlator with bytes q p replaces it, a failing write and no bytes leave
\* it, wrong data and the wrong context are turned away
C27_Witness ==
    /\ thumbnailCtxId = 1
    /\ thumbnail = <<"p">>
    /\ thumbnailCorrelator = makeCorrelator(1, StartTime + 1)
    /\ LET k == thumbnailCorrelator
           o == finishThumbnailGeneration(Self, 1, k \o <<"q", "p">>, TRUE)
       IN /\ o.ret = "Ok"
          /\ o.thumbnail = <<"q", "p">>
          /\ o.thumbnailCtxId = 0
          /\ finishThumbnailGeneration(o, 1, k \o <<"p">>, TRUE).ret
                 = "InvalidUser"
          /\ finishThumbnailGeneration(Self, 1, k \o <<"q", "p">>, FALSE).ret
                 = "WriteError"
          /\ finishThumbnailGeneration(Self, 1, k, TRUE).ret = "NoData"
          /\ Untouched(finishThumbnailGeneration(
                           Self, 1, makeCorrelator(0, StartTime) \o <<"p">>,
                           TRUE), "InvalidCorrelator")
          /\ Untouched(finishThumbnailGeneration(Self, 2, k \o <<"p">>, TRUE),
                       "InvalidUser")

\* C28: effectiveAutoResetThreshold is 0 for an autoResetThreshold of 0;
\* otherwise it is autoResetThreshold + autoResetBaseSize when no size limit
\* is configured, and the smaller of that sum and 0.9 * L rounded down when
\* the current size limit is L > 0, so that it is at most 0.9 * L then.
C28_EffectiveThreshold ==
    \A autoResetThreshold \in AutoResetThresholds :
        LET e == effectiveAutoResetThreshold(Self, autoResetThreshold)
            sum == autoResetThreshold + autoResetBaseSize
            L == currentSizeLimit(Self)
        IN /\ autoResetThreshold = 0 => e = 0
           /\ (autoResetThreshold > 0 /\ L = 0) => e = sum
           /\ (autoResetThreshold > 0 /\ L > 0) =>
                  /\ \E floor \in 0..L :
                         /\ 10 * floor <= 9 * L
                         /\ 9 * L < 10 * (floor + 1)
                         /\ e = IF sum < floor THEN sum ELSE floor
                  /\ 10 * e <= 9 * L

\* the limit is 5 and the last reset left 5 bytes: every threshold above 0
\* comes out as 4, below the base
C28_Witness ==
    /\ currentSizeLimit(Self) = 5
    /\ autoResetBaseSize = 5
    /\ effectiveAutoResetThreshold(Self, 1) = 4
    /\ effectiveAutoResetThreshold(Self, 20) = 4
    /\ effectiveAutoResetThreshold(Self, 0) = 0

\* C29: canSkipToHistoryIndex(hi) is true exactly for a valid hi of this
\* session whose startId is the current lastResetTime and whose position
\* lies from firstIndex to lastIndex; the index historyIndex() returns can
\* be skipped to exactly while the retained log is not empty; and after a
\* successful reset() no index can be skipped to whose position was in the
\* log before, the one historyIndex() returned before among them.
C29_SkipToIndex ==
    /\ \A hi \in HistoryIndices :
           canSkipToHistoryIndex(Self, hi) <=>
               /\ isValid(hi)
               /\ hi.sessionId = SessionId
               /\ hi.startId = lastResetTime
               /\ firstIndex <= hi.historyPos
               /\ hi.historyPos <= lastIndex
    /\ historyIndex(Self) \in HistoryIndices
    /\ canSkipToHistoryIndex(Self, historyIndex(Self)) <=> log # <<>>
    /\ \A newHistory \in Histories :
           LET o == reset(Self, newHistory)
           IN o.ret = "true" =>
                  /\ ~canSkipToHistoryIndex(o, historyIndex(Self))
                  /\ \A hi \in HistoryIndices :
                         hi.historyPos <= lastIndex =>
                             ~canSkipToHistoryIndex(o, hi)

\* two messages are retained after a reset and the clock has not moved
\* since: the current index can be skipped to, the position before it too,
\* an index of the epoch of construction cannot, and a reset to one message
\* in the same millisecond keeps the epoch but not the index
C29_Witness ==
    /\ firstIndex = 2
    /\ lastIndex = 3
    /\ lastResetTime = now
    /\ canSkipToHistoryIndex(Self, historyIndex(Self))
    /\ canSkipToHistoryIndex(Self, HistoryIndex(SessionId, lastResetTime, 2))
    /\ ~canSkipToHistoryIndex(Self, HistoryIndex(SessionId,
                                                 StartTime \div MSecsPerSec, 3))
    /\ ~canSkipToHistoryIndex(Self, HistoryIndex("other", lastResetTime, 3))
    /\ LET o == reset(Self, <<Msg("cmd", 5, 1)>>)
       IN /\ o.ret = "true"
          /\ o.lastResetTime = lastResetTime
          /\ ~canSkipToHistoryIndex(o, historyIndex(Self))
          /\ canSkipToHistoryIndex(o, historyIndex(o))

\* what each call does to the indices, in the state at hand
IndexSteps ==
    /\ \A msg \in LiveMsgs :
           /\ LET o == addMessage(Self, msg)
              IN /\ o.firstIndex = firstIndex
                 /\ o.lastIndex = IF o.ret = "true" THEN lastIndex + 1
                                  ELSE lastIndex
           /\ LET o == addEmergencyMessage(Self, msg)
              IN /\ o.firstIndex = firstIndex
                 /\ o.lastIndex = IF o.ret = "true" THEN lastIndex + 1
                                  ELSE lastIndex
    /\ \A newHistory \in Histories :
           LET o == reset(Self, newHistory)
           IN IF o.ret = "true"
              THEN /\ o.lastIndex = lastIndex + Len(newHistory)
                   /\ o.firstIndex = lastIndex + 1
                   /\ o.firstIndex >= firstIndex
              ELSE SameIndices(o)
    /\ \A ctxId \in Ctx, correlator \in Correlators, seed \in SeedLists,
          openResult \in OpenResults :
           LET o == startStreamedReset(Self, ctxId, correlator, seed,
                                       openResult)
           IN /\ o.firstIndex = firstIndex
              /\ o.lastIndex >= lastIndex
              /\ o.ret = "Ok" => o.lastIndex = lastIndex + 2
    /\ \A includeTail \in BOOLEAN :
           LET o == resolveStreamedReset(Self, TRUE, includeTail)
           IN IF o.ret = "true"
              THEN /\ o.lastIndex
                          = lastIndex + outOffset(Self, TRUE, includeTail)
                   /\ outOffset(Self, TRUE, includeTail) = Len(o.log)
                   /\ o.firstIndex = lastIndex + 1
                   /\ o.firstIndex >= firstIndex
              ELSE SameIndices(o)
    /\ LaterStepsKeepIndices

\* C30: an admitted append raises lastIndex by 1, a successful reset(L) by
\* |L|, a successful startStreamedReset by 2, a successful
\* resolveStreamedReset by the message count it reports, and no step of the
\* session lowers lastIndex or firstIndex.
C30_IndicesGrow ==
    /\ []IndexSteps
    /\ [][lastIndex' >= lastIndex /\ firstIndex' >= firstIndex]_vars

\* a reset has moved firstIndex to 2, a streamed reset is prepared with one
\* message in the pending log and one in the live tail: the resolve raises
\* lastIndex by 2 and moves firstIndex past the old log
C30_Witness ==
    /\ resetStreamState = "Prepared"
    /\ firstIndex >= 1
    /\ LET o == resolveStreamedReset(Self, TRUE, TRUE)
       IN /\ o.ret = "true"
          /\ outOffset(Self, TRUE, TRUE) >= 2
          /\ o.lastIndex = lastIndex + outOffset(Self, TRUE, TRUE)
          /\ o.firstIndex = lastIndex + 1
          /\ o.firstIndex > firstIndex

\* the codec on its own
NextCodec ==
    \/ Make
    \/ Arrive
    \/ FromMessage

SpecCodec == Init /\ [][NextCodec]_vars

\* C31: for every command with a non-empty cmd, whatever its args and
\* kwargs, empty ones included, which toMessage leaves out of the JSON,
\* fromMessage(toMessage(x)) has the cmd, args and kwargs of x; so whenever a
\* message made from such a command has just been read back, what was read
\* is the command.
C31_RoundTrip ==
    /\ \A x \in Commands :
           x.cmd # "" =>
               /\ fromMessage(toMessage(x)).cmd = x.cmd
               /\ fromMessage(toMessage(x)).args = x.args
               /\ fromMessage(toMessage(x)).kwargs = x.kwargs
               /\ isEmpty(x.args) <=>
                      "args" \notin DOMAIN fromJsonBytes(toMessage(x).payload).object
               /\ isEmpty(x.kwargs) <=>
                      "kwargs" \notin DOMAIN fromJsonBytes(toMessage(x).payload).object
    /\ (codec.command.cmd # "" /\ codec.parsed = fromMessage(codec.message)) =>
           codec.parsed = codec.command

\* a command with no args and two kwargs has been sent and read back: the
\* JSON text has no args member, and the command read is the one sent; one
\* with args and no kwargs comes back as well
C31_Witness ==
    /\ codec.command = ServerCommand("kick-user", <<>>,
                                     [k \in {"ban", "reason"} |->
                                         IF k = "ban"
                                         THEN Token("literal", "false")
                                         ELSE String("")])
    /\ codec.message = toMessage(codec.command)
    /\ codec.message.payload
           = <<Punct("{"), String("cmd"), Punct(":"), String("kick-user"),
               Punct(","), String("kwargs"), Punct(":"), Punct("{"),
               String("ban"), Punct(":"), Token("literal", "false"),
               Punct(","), String("reason"), Punct(":"), String(""),
               Punct("}"), Punct("}")>>
    /\ codec.parsed = codec.command
    /\ LET x == ServerCommand("mute", <<Token("number", "3"),
                                        Token("literal", "true")>>, <<>>)
       IN /\ fromMessage(toMessage(x)) = x
          /\ toMessage(x).payload
                 = <<Punct("{"), String("args"), Punct(":"), Punct("["),
                     Token("number", "3"), Punct(","),
                     Token("literal", "true"), Punct("]"), Punct(","),
                     String("cmd"), Punct(":"), String("mute"), Punct("}")>>

\* C32 as stated: every successful reset, atomic or streamed, leaves
\* lastResetTime different from what it was, and no other call changes it.
C32_EveryResetNewEpoch ==
    /\ \A includeTail \in BOOLEAN :
           LET o == resolveStreamedReset(Self, TRUE, includeTail)
           IN IF o.ret = "true" THEN o.lastResetTime # lastResetTime
              ELSE o.lastResetTime = lastResetTime
    /\ \A newHistory \in Histories :
           LET o == reset(Self, newHistory)
           IN IF o.ret = "true" THEN o.lastResetTime # lastResetTime
              ELSE o.lastResetTime = lastResetTime
    /\ \A msg \in LiveMsgs :
           /\ addMessage(Self, msg).lastResetTime = lastResetTime
           /\ addEmergencyMessage(Self, msg).lastResetTime = lastResetTime
    /\ \A ctxId \in Ctx, correlator \in Correlators, seed \in SeedLists,
          openResult \in OpenResults :
           startStreamedReset(Self, ctxId, correlator, seed, openResult)
               .lastResetTime = lastResetTime
    /\ \A ctxId \in {-1} \cup Ctx :
           abortStreamedReset(Self, ctxId).lastResetTime = lastResetTime

\* what reset, historyLoaded and a failing resolve do to autoResetBaseSize
BaseAfterAtomicReset ==
    /\ \A newHistory \in Histories :
           LET o == reset(Self, newHistory)
           IN o.autoResetBaseSize = IF o.ret = "true" THEN o.sizeInBytes
                                    ELSE autoResetBaseSize
    /\ \A loaded \in Histories :
           lastIndex = -1 =>
               LET o == historyLoaded(Self, loaded)
               IN o.autoResetBaseSize = o.sizeInBytes
    /\ resolveStreamedReset(Self, FALSE, FALSE).autoResetBaseSize
           = autoResetBaseSize

\* C33 as stated: after every successful reset, atomic or streamed, and
\* after historyLoaded, autoResetBaseSize equals sizeInBytes.
C33_BaseIsSize ==
    /\ BaseAfterAtomicReset
    /\ \A includeTail \in BOOLEAN :
           LET o == resolveStreamedReset(Self, TRUE, includeTail)
           IN o.ret = "true" => o.autoResetBaseSize = o.sizeInBytes

\* C33: after a successful reset() and after historyLoaded autoResetBaseSize
\* equals sizeInBytes; after a successful resolveStreamedReset it equals
\* resetStreamSize, the bytes received through the stream, whatever size the
\* backend reports for the new log; and it changes in no other step: a step
\* that changes it is a load or a reset, which ends with the base equal to
\* the size, or the resolve of a prepared stream.
C33_BaseAfterReset ==
    /\ [](/\ BaseAfterAtomicReset
          /\ \A includeTail \in BOOLEAN :
                 LET o == resolveStreamedReset(Self, TRUE, includeTail)
                 IN o.ret = "true" => o.autoResetBaseSize = resetStreamSize)
    /\ [][autoResetBaseSize' # autoResetBaseSize =>
              \/ /\ autoResetBaseSize' = sizeInBytes'
                 /\ lastIndex = -1 \/ firstIndex' = lastIndex + 1
              \/ /\ resetStreamState = "Prepared"
                 /\ resetStreamState' = "None"
                 /\ autoResetBaseSize' = resetStreamSize]_vars

\* a prepared stream of 6 bytes whose pending log, with its seed, the
\* CaughtUp marker and the live tail, is larger: the resolve sets the base to
\* 6 and the size to what the backend reports
C33_Witness ==
    /\ resetStreamState = "Prepared"
    /\ resetStreamSize = 6
    /\ LET o == resolveStreamedReset(Self, TRUE, TRUE)
       IN /\ o.ret = "true"
          /\ o.autoResetBaseSize = 6
          /\ o.sizeInBytes > 6
          /\ o.sizeInBytes = SumLen(o.log)

\* C34: while a reset is streaming, every message handed to the callback is
\* screened: a control message or a server-meta message other than chat is
\* rejected with DisallowedType, a message that would take resetStreamSize
\* over a non-zero currentSizeLimit with OutOfSpace; a rejected message, by
\* the screen or by the backend, leaves the pending log and
\* resetStreamMessageCount alone; an accepted one is persisted once, with
\* contextId = resetStreamCtxId; and under a limit L > 0 resetStreamSize <= L
\* holds before and after.
C34_CallbackScreens ==
    LET L == currentSizeLimit(Self)
    IN /\ L > 0 => resetStreamSize <= L
       /\ resetStreamState = "Streaming" =>
              \A msg \in InnerMsgs :
              \A backendResult \in {"Ok"} \cup BackendAddFailures :
                  LET o == receiveResetStreamMessage(Self, msg, backendResult)
                      disallowed == msg.kind \in {"control", "meta"}
                      tooLarge == L > 0 /\ resetStreamSize + msg.len > L
                  IN /\ disallowed =>
                            /\ o.ret = "false"
                            /\ o.resetStreamAddError = "DisallowedType"
                     /\ ~disallowed /\ tooLarge =>
                            /\ o.ret = "false"
                            /\ o.resetStreamAddError = "OutOfSpace"
                     /\ o.ret = "true" <=>
                            ~disallowed /\ ~tooLarge /\ backendResult = "Ok"
                     /\ o.ret = "false" =>
                            /\ o.pending = pending
                            /\ o.resetStreamMessageCount
                                   = resetStreamMessageCount
                     /\ o.ret = "true" =>
                            /\ o.pending.msgs
                                   = Append(pending.msgs,
                                            Msg(msg.kind, msg.len,
                                                resetStreamCtxId))
                            /\ o.resetStreamMessageCount
                                   = resetStreamMessageCount + 1
                     /\ L > 0 => o.resetStreamSize <= L

\* under the limit 5 a chat of 5 bytes of another context has been persisted
\* as the starter's: a command of 6 bytes is out of space, a control message
\* disallowed
C34_Witness ==
    /\ resetStreamState = "Streaming"
    /\ currentSizeLimit(Self) = 5
    /\ resetStreamSize = 5
    /\ resetStreamMessageCount = 1
    /\ \E i \in DOMAIN pending.msgs :
           pending.msgs[i] = Msg("chat", 5, resetStreamCtxId)
    /\ receiveResetStreamMessage(Self, Msg("cmd", 6, 2), "Ok")
           .resetStreamAddError = "OutOfSpace"
    /\ receiveResetStreamMessage(Self, Msg("control", 5, 1), "Ok")
           .resetStreamAddError = "DisallowedType"

\* C35 as stated, by the operations it names: under a limit L > 0 no append,
\* no atomic reset, no start of a streamed reset and no resolve takes
\* sizeInBytes from within L + EmergencyExtra to beyond it.
C35_SizeWithinLimit ==
    LET L == currentSizeLimit(Self)
        within(o) == o.sizeInBytes <= L + EmergencyExtra
    IN L > 0 /\ within(Self) =>
           /\ \A msg \in LiveMsgs :
                  /\ within(addMessage(Self, msg))
                  /\ within(addEmergencyMessage(Self, msg))
           /\ \A newHistory \in Histories : within(reset(Self, newHistory))
           /\ \A ctxId \in Starters, correlator \in Correlators :
              \A seed \in SeedLists, openResult \in OpenResults :
                  within(startStreamedReset(Self, ctxId, correlator, seed,
                                            openResult))
           /\ \A ok \in BOOLEAN, includeTail \in BOOLEAN :
                  within(resolveStreamedReset(Self, ok, includeTail))

\* C36 as stated: finishThumbnailGeneration calls setThumbnail only when a
\* generation started by the same context is pending, and with no generation
\* pending it answers InvalidUser for every context, context 0 included, and
\* changes nothing.
C36_FinishNeedsPending ==
    \A contextId \in ThumbnailCtx, data \in ThumbnailData, ok \in BOOLEAN :
        LET o == finishThumbnailGeneration(Self, contextId, data, ok)
        IN /\ o.hooks # <<>> =>
                  thumbnailCtxId # 0 /\ thumbnailCtxId = contextId
           /\ thumbnailCtxId = 0 => Untouched(o, "InvalidUser")

\* C37 as stated: while the generation of a context a is pending, a start by
\* another context b, b # 0, does not answer Ok, and after it a finish by a
\* with a's correlator and bytes is still accepted.
C37_PendingIsKept ==
    thumbnailCtxId # 0 =>
        \A b \in ThumbnailCtx \ {0, thumbnailCtxId} :
            LET a == thumbnailCtxId
                k == thumbnailCorrelator
                o == startThumbnailGeneration(Self, b)
            IN /\ o.ret # "Ok"
               /\ \A bytes \in ImageBytes, ok \in BOOLEAN :
                      finishThumbnailGeneration(o, a, k \o bytes, ok).ret
                          \notin {"InvalidUser", "InvalidCorrelator"}

\* the messages of the pending log that came through the callback: the
\* seeds are the server's, of context 0, the streamed ones the starter's
StreamedIntoPending == SelectSeq(pending.msgs, LAMBDA m : m.ctx # 0)

\* C38 as stated: while a streamed reset is Streaming,
\* resetStreamMessageCount is the number of the messages persisted to the
\* pending log through the callback since the start and resetStreamSize the
\* sum of their lengths, also after the backend has failed for a message.
C38_CountersMatchPending ==
    resetStreamState = "Streaming" =>
        /\ resetStreamMessageCount = Len(StreamedIntoPending)
        /\ resetStreamSize = SumLen(StreamedIntoPending)

\* a call that moved lastIndex up has emitted newMessagesAvailable
Announced(o) == o.lastIndex > lastIndex => o.emitted

\* C39 as stated: every operation that increases lastIndex after the initial
\* load, an admitted addMessage or addEmergencyMessage, a successful reset, a
\* startStreamedReset that appended its markers, a successful
\* resolveStreamedReset, emits newMessagesAvailable before it returns.
C39_AdvanceIsAnnounced ==
    /\ \A msg \in LiveMsgs :
           /\ Announced(addMessage(Self, msg))
           /\ Announced(addEmergencyMessage(Self, msg))
    /\ \A newHistory \in Histories : Announced(reset(Self, newHistory))
    /\ \A ctxId \in Starters, correlator \in Correlators :
       \A seed \in SeedLists, openResult \in OpenResults :
           Announced(startStreamedReset(Self, ctxId, correlator, seed,
                                        openResult))
    /\ \A ok \in BOOLEAN, includeTail \in BOOLEAN :
           Announced(resolveStreamedReset(Self, ok, includeTail))

\* C40: whatever was appended to the live log between startStreamedReset
\* and a successful resolveStreamedReset, the SoftReset and StreamStart
\* markers included, has after the resolve an index below firstIndex, which
\* is the index after the last live one; sizeInBytes is the size of the log
\* the backend reports: the pending log's alone when the backend has not
\* taken the live messages in, and that plus the lengths of the live
\* messages since the start of the stream, never the markers', when it has.
C40_LiveLeftBehind ==
    resetStreamState = "Prepared" =>
        \A includeTail \in BOOLEAN :
            LET o == resolveStreamedReset(Self, TRUE, includeTail)
                live == liveSinceStreamStart(Self)
            IN /\ o.ret = "true"
               /\ \A i \in firstIndex..lastIndex : i < o.firstIndex
               /\ o.firstIndex = lastIndex + 1
               /\ o.sizeInBytes = SumLen(pending.msgs)
                                  + (IF includeTail THEN SumLen(live) ELSE 0)
               /\ o.lastIndex - o.firstIndex + 1
                      = Len(pending.msgs) + (IF includeTail THEN Len(live)
                                             ELSE 0)
               /\ Len(live) <= lastIndex - resetStreamStartIndex + 1

\* a command of 6 bytes was appended at index 2 while the reset was
\* streaming: a resolve that leaves it out gives firstIndex = 3 and a size
\* without its bytes, a resolve that takes it in counts them
C40_Witness ==
    /\ resetStreamState = "Prepared"
    /\ resetStreamStartIndex = 2
    /\ lastIndex = 2
    /\ liveSinceStreamStart(Self) = <<Msg("cmd", 6, 2)>>
    /\ LET sealed == resolveStreamedReset(Self, TRUE, FALSE)
           merged == resolveStreamedReset(Self, TRUE, TRUE)
       IN /\ sealed.firstIndex = 3
          /\ sealed.sizeInBytes = SumLen(pending.msgs)
          /\ sealed.sizeInBytes < sizeInBytes
          /\ merged.firstIndex = 3
          /\ merged.sizeInBytes = sealed.sizeInBytes + 6

====
